---- MODULE Spec2Model ----
(***************************************************************************)
(* Favorability (reputation) scoring engine of the Sakuya bot:             *)
(*   src/plugins/favorability_plugin/plugin.py  (store functions, the      *)
(*       after-reply handler FavorabilityEventHandler and the on-message   *)
(*       handler UserSentimentEventHandler, the five tracker dictionaries) *)
(*   src/scripts/favorability_manager.py        (administrative script)    *)
(*                                                                         *)
(* Time is an integer number of seconds (time.time()); a calendar date is  *)
(* the day number now \div DayLen.  Band labels are written in ASCII:      *)
(*   "kin" 至亲, "bestfriend" 挚友, "friend" 好友, "acquaintance" 熟人,    *)
(*   "known" 认识, "stranger" 陌生, "disliked" 厌恶, "hostile" 敌视,       *)
(*   "nemesis" 死敌.                                                       *)
(* A message is the set of keyword lists its sanitized text hits, the      *)
(* length of that text without whitespace, and the set of marker lists the *)
(* combined reasoning hits.                                                *)
(***************************************************************************)
EXTENDS Integers, Sequences, FiniteSets, TLC

VARIABLES
    Favorability,                   \* the table: person_id -> row
    _negative_behavior_tracker,     \* person_id -> <<(timestamp, tag), ...>>
    _normal_interaction_tracker,    \* person_id -> timestamp
    _positive_interaction_tracker,  \* person_id -> timestamp
    _negative_interaction_tracker,  \* person_id -> timestamp
    _daily_normal_gain_tracker,     \* person_id -> [date, count]
    config,                         \* the plugin's configuration values
    now,                            \* time.time()
    last,                           \* history: the operation that led here
    ops,                            \* history: the number of operations so far
    probe,                          \* result of the last pure-function probe,
                                    \* or history: the deltas applied and held
    inflight                        \* store calls between their read and write

vars == <<Favorability, _negative_behavior_tracker, _normal_interaction_tracker,
          _positive_interaction_tracker, _negative_interaction_tracker,
          _daily_normal_gain_tracker, config, now, last, ops, probe, inflight>>

---------------------------------------------------------------------------
(* Bounds of the model *)

\* the clock starts at StartTime (an epoch time is far beyond every cooldown)
\* and the model follows it for Horizon seconds
StartTime == 10
Horizon == 3
MaxTime == StartTime + Horizon
\* seconds per calendar day
DayLen == 2
\* the number of handler and store operations in one run
MaxOps == 3
\* scores and deltas tried by the pure-function probes
ProbeMargin == 10
ProbeDelta == 60

Persons == {"p1"}

---------------------------------------------------------------------------
(* Python helpers *)

\* dict.get(key, default)
Get(d, k, default) == IF k \in DOMAIN d THEN d[k] ELSE default

\* an assignment that leaves only the assigned key in the dictionary
Put_alone(d, k, v) == (k :> v)

\* d[key] = value
Put(d, k, v) == (k :> v) @@ d

Max(a, b) == IF a >= b THEN a ELSE b
Min(a, b) == IF a <= b THEN a ELSE b

\* int(x / 2): float division, truncated toward zero
IntHalf(n) == IF n >= 0 THEN n \div 2 ELSE -((-n) \div 2)

\* datetime.now().strftime("%Y-%m-%d") at time t
Today(t) == t \div DayLen

---------------------------------------------------------------------------
(* Band classifier *)

\* a classifier whose top band starts above 120
get_favorability_level_gt(favorability) ==
    IF favorability > 120 THEN "kin"
    ELSE IF favorability >= 90 THEN "bestfriend"
    ELSE IF favorability >= 70 THEN "friend"
    ELSE IF favorability >= 50 THEN "acquaintance"
    ELSE IF favorability >= 30 THEN "known"
    ELSE IF favorability >= 10 THEN "stranger"
    ELSE IF favorability >= -10 THEN "disliked"
    ELSE IF favorability >= -30 THEN "hostile"
    ELSE "nemesis"

\* get_favorability_level of the plugin (nine bands)
get_favorability_level(favorability) ==
    IF favorability >= 120 THEN "kin"
    ELSE IF favorability >= 90 THEN "bestfriend"
    ELSE IF favorability >= 70 THEN "friend"
    ELSE IF favorability >= 50 THEN "acquaintance"
    ELSE IF favorability >= 30 THEN "known"
    ELSE IF favorability >= 10 THEN "stranger"
    ELSE IF favorability >= -10 THEN "disliked"
    ELSE IF favorability >= -30 THEN "hostile"
    ELSE "nemesis"

\* the administrative script's own classifier (six bands)
manager_get_favorability_level(fav) ==
    IF fav >= 90 THEN "bestfriend"
    ELSE IF fav >= 70 THEN "friend"
    ELSE IF fav >= 50 THEN "acquaintance"
    ELSE IF fav >= 30 THEN "known"
    ELSE IF fav >= 10 THEN "stranger"
    ELSE "disliked"

---------------------------------------------------------------------------
(* Score store *)

Row(favorability, level, total, positive, negative, last_interaction, created_at) ==
    [favorability |-> favorability, level |-> level,
     total_interactions |-> total, positive_interactions |-> positive,
     negative_interactions |-> negative,
     last_interaction |-> last_interaction, created_at |-> created_at]

\* a store that keeps the value as given
clamp_noop(value) == value

\* max(-50, min(150, value))
clamp(value) == Max(-50, Min(150, value))

\* a read whose default for a missing row is 0
get_favorability_default_zero(db, person_id) ==
    IF person_id \in DOMAIN db THEN db[person_id].favorability ELSE 0

\* get_favorability: the stored score, 50 without a row
get_favorability(db, person_id) ==
    IF person_id \in DOMAIN db THEN db[person_id].favorability ELSE 50

\* a set_favorability that writes a fresh row over an existing one
set_favorability_reset(db, person_id, value, t) ==
    Put(db, person_id, Row(clamp(value), get_favorability_level(clamp(value)), 0, 0, 0, t, t))

\* set_favorability at time t: the table afterwards
set_favorability(db, person_id, value, t) ==
    LET v == clamp(value)
        level == get_favorability_level(v)
    IN IF person_id \in DOMAIN db
       THEN [db EXCEPT ![person_id].favorability = v,
                       ![person_id].level = level,
                       ![person_id].last_interaction = t]
       ELSE Put(db, person_id, Row(v, level, 0, 0, 0, t, t))

\* an add_favorability that starts a missing row from 0
add_favorability_value_from_zero(db, person_id, delta) ==
    clamp((IF person_id \in DOMAIN db THEN db[person_id].favorability ELSE 0) + delta)

\* add_favorability: the value it returns
add_favorability_value(db, person_id, delta) ==
    clamp(get_favorability(db, person_id) + delta)

\* an add_favorability that always takes the create branch
add_favorability_recreate(db, person_id, delta, interaction_type, t) ==
    LET new_value == add_favorability_value(db, person_id, delta)
        level == get_favorability_level(new_value)
        pos == IF interaction_type = "positive" THEN 1 ELSE 0
        neg == IF interaction_type = "negative" THEN 1 ELSE 0
    IN Put(db, person_id, Row(new_value, level, 1, pos, neg, t, t))

\* an add_favorability that counts the family but not the interaction
add_favorability_family_only(db, person_id, delta, interaction_type, t) ==
    LET new_value == add_favorability_value(db, person_id, delta)
        level == get_favorability_level(new_value)
        pos == IF interaction_type = "positive" THEN 1 ELSE 0
        neg == IF interaction_type = "negative" THEN 1 ELSE 0
    IN IF person_id \in DOMAIN db
       THEN [db EXCEPT ![person_id].favorability = new_value,
                       ![person_id].level = level,
                       ![person_id].positive_interactions = @ + pos,
                       ![person_id].negative_interactions = @ + neg,
                       ![person_id].last_interaction = t]
       ELSE Put(db, person_id, Row(new_value, level, 0, pos, neg, t, t))

\* add_favorability at time t: the table afterwards
add_favorability(db, person_id, delta, interaction_type, t) ==
    LET new_value == add_favorability_value(db, person_id, delta)
        level == get_favorability_level(new_value)
        pos == IF interaction_type = "positive" THEN 1 ELSE 0
        neg == IF interaction_type = "negative" THEN 1 ELSE 0
    IN IF person_id \in DOMAIN db
       THEN [db EXCEPT ![person_id].favorability = new_value,
                       ![person_id].level = level,
                       ![person_id].total_interactions = @ + 1,
                       ![person_id].positive_interactions = @ + pos,
                       ![person_id].negative_interactions = @ + neg,
                       ![person_id].last_interaction = t]
       ELSE Put(db, person_id, Row(new_value, level, 1, pos, neg, t, t))

\* the script's modify_favorability at time t: the table afterwards
modify_favorability(db, person_id, new_value, t) ==
    LET v == Max(0, Min(150, new_value))
        new_level == manager_get_favorability_level(v)
    IN IF person_id \in DOMAIN db
       THEN [db EXCEPT ![person_id].favorability = v,
                       ![person_id].level = new_level]
       ELSE Put(db, person_id, Row(v, new_level, 0, 0, 0, t, t))

---------------------------------------------------------------------------
(* Configuration *)

\* raw configuration values, as the configuration file can hold them
IntV(n) == [t |-> "int", v |-> n]
\* a bool is an int in Python: True is 1, False is 0
BoolV(b) == [t |-> "bool", v |-> IF b THEN 1 ELSE 0]
FloatV(tenths) == [t |-> "float", v |-> tenths]
StrV(n) == [t |-> "str", v |-> n]
BadStrV == [t |-> "badstr"]
DictV == [t |-> "dict"]
NoneV == [t |-> "none"]

\* self.get_config(key, default)
get_config(c, key, default) == IF key \in DOMAIN c THEN c[key] ELSE default

\* truth value of a raw value (if self.get_config(...))
Truthy(value) ==
    IF value.t \in {"bool", "int", "float"} THEN value.v # 0
    ELSE IF value.t = "none" THEN FALSE
    ELSE TRUE

\* FavorabilityEventHandler._get_int_config
_get_int_config(value, default) ==
    IF value.t = "bool" \/ value.t = "none" THEN default
    ELSE IF value.t = "int" THEN value.v
    ELSE IF value.t = "float"
         THEN (IF value.v >= 0 THEN value.v \div 10 ELSE -((-value.v) \div 10))
    ELSE IF value.t = "dict" THEN default
    ELSE IF value.t = "str" THEN value.v
    ELSE default

IntConfig(c, key, default) == _get_int_config(get_config(c, key, IntV(default)), default)

\* the tunables read by FavorabilityEventHandler.execute, with its defaults
positive_delta(c) == IntConfig(c, "positive_delta", 1)
affectionate_delta(c) == IntConfig(c, "affectionate_delta", 3)
negative_delta(c) == IntConfig(c, "negative_delta", -5)
mild_negative_delta(c) == IntConfig(c, "mild_negative_delta", 0)
severe_delta(c) == IntConfig(c, "severe_delta", -5)
harassment_delta(c) == IntConfig(c, "harassment_delta", -5)
harassment_window(c) == IntConfig(c, "harassment_window_seconds", 300)
harassment_threshold(c) == IntConfig(c, "harassment_threshold", 3)
positive_cooldown(c) == IntConfig(c, "positive_cooldown_seconds", 120)
negative_cooldown(c) == IntConfig(c, "negative_cooldown_seconds", 120)
min_positive_len(c) == IntConfig(c, "min_positive_length", 4)
min_normal_len(c) == IntConfig(c, "min_normal_length", 6)
positive_bonus_delta(c) == IntConfig(c, "positive_bonus_delta", 1)
reasoning_positive_delta(c) == IntConfig(c, "reasoning_positive_delta", 1)
reasoning_positive_bonus_high(c) == IntConfig(c, "reasoning_positive_bonus_high", 2)
reasoning_positive_bonus_mid(c) == IntConfig(c, "reasoning_positive_bonus_mid", 1)
reasoning_positive_bonus_low(c) == IntConfig(c, "reasoning_positive_bonus_low", 1)
normal_delta(c) == IntConfig(c, "normal_delta", 1)
normal_cooldown(c) == IntConfig(c, "normal_cooldown_seconds", 600)
daily_limit(c) == IntConfig(c, "daily_normal_limit", 10)
\* read without _get_int_config
interaction_cooldown(c) == get_config(c, "interaction_cooldown_seconds", IntV(120)).v

\* the tunables read by UserSentimentEventHandler.execute, with its defaults
sentiment_severe_delta(c) == IntConfig(c, "severe_delta", -15)
sentiment_harassment_delta(c) == IntConfig(c, "harassment_delta", -25)
sentiment_harassment_window(c) == IntConfig(c, "harassment_window_seconds", 300)
sentiment_harassment_threshold(c) == IntConfig(c, "harassment_threshold", 3)

\* The configuration the engine runs under: the schema's keys and defaults,
\* with the time values in model seconds, reasoning detection switched on,
\* a harassment penalty that differs from the tier penalties and a daily
\* limit of one gain.
EngineConfig ==
    [enabled |-> BoolV(TRUE),
     skip_penalty_when_not_talking_to_me |-> BoolV(TRUE),
     reasoning_detection_enabled |-> BoolV(TRUE),
     positive_delta |-> IntV(1),
     affectionate_delta |-> IntV(3),
     negative_delta |-> IntV(-5),
     mild_negative_delta |-> IntV(-1),
     severe_delta |-> IntV(-5),
     harassment_delta |-> IntV(-25),
     harassment_window_seconds |-> IntV(3),
     harassment_threshold |-> IntV(3),
     normal_delta |-> IntV(1),
     normal_cooldown_seconds |-> IntV(1),
     positive_cooldown_seconds |-> IntV(2),
     negative_cooldown_seconds |-> IntV(2),
     interaction_cooldown_seconds |-> IntV(2),
     daily_normal_limit |-> IntV(1),
     min_positive_length |-> IntV(4),
     min_normal_length |-> IntV(6),
     positive_bonus_delta |-> IntV(1),
     reasoning_positive_delta |-> IntV(1),
     reasoning_positive_bonus_high |-> IntV(2),
     reasoning_positive_bonus_mid |-> IntV(1),
     reasoning_positive_bonus_low |-> IntV(1)]

Configs == {EngineConfig}

---------------------------------------------------------------------------
(* Messages *)

\* keyword lists of FavorabilityEventHandler that the sanitized text can hit
Keywords == {"severe", "mild", "negative", "soften", "affectionate", "positive"}

\* marker lists that the combined reasoning can hit
Markers == {"not_talking_to_me", "others_target", "hedge",
            "insult", "harassment", "threat", "rude", "high", "mid", "low"}

Msg(kw, len, reasoning) == [kw |-> kw, len |-> len, reasoning |-> reasoning]

\* The texts the engine is run on.  Lengths are taken around the length
\* gates of the configuration (min_positive_length 4, min_normal_length 6,
\* 3 x min_positive_length 12).
Messages ==
    {Msg({}, 4, {}),                      \* too short for a daily gain
     Msg({}, 6, {}),                      \* no keyword, no reasoning
     Msg({"severe"}, 6, {}),
     Msg({"mild"}, 6, {}),
     Msg({"negative"}, 6, {}),
     Msg({"negative", "soften"}, 6, {}),
     Msg({"affectionate"}, 6, {}),
     Msg({"positive"}, 3, {}),            \* below min_positive_length
     Msg({"positive"}, 12, {}),           \* long enough for the bonus
     Msg({}, 6, {"insult"}),              \* reasoning names a behaviour label
     Msg({}, 6, {"high"})}                \* reasoning names a positive tier

\* the texts of the negative keyword tiers
NegativeMessages ==
    {Msg({"severe"}, 6, {}), Msg({"negative"}, 6, {}),
     Msg({"negative", "soften"}, 6, {})}

\* the message of an operation that has none
NoMsg == Msg({}, 0, {})

---------------------------------------------------------------------------
(* Engine state and handler results *)

\* the state a handler works on, and what it reports: the branch it took
\* (tag), whether it called add_favorability, and with which delta
Work(db, nbt, nit, pit, ngt, dng) ==
    [db |-> db, nbt |-> nbt, nit |-> nit, pit |-> pit, ngt |-> ngt, dng |-> dng,
     tag |-> "none", applied |-> FALSE, delta |-> 0]

\* return True, False, None, None, None without a score change
Ret(S, tag) == [S EXCEPT !.tag = tag]

\* new_fav = add_favorability(person_id, delta, interaction_type)
Scored(S, person_id, delta, interaction_type, t, tag) ==
    [S EXCEPT !.db = add_favorability(S.db, person_id, delta, interaction_type, t),
              !.tag = tag, !.applied = TRUE, !.delta = delta]

\* a pruning that keeps the entry whose age equals the window
PruneLog_inclusive(log, t, window) == SelectSeq(log, LAMBDA e : t - e[1] <= window)

\* the list comprehension that drops expired log entries
PruneLog(log, t, window) == SelectSeq(log, LAMBDA e : t - e[1] < window)

\* a log that is pruned but gets no entry for the hit
RecordNegative_no_append(S, person_id, t, tag, window) ==
    [S EXCEPT !.nbt = Put(S.nbt, person_id,
        PruneLog(Get(S.nbt, person_id, <<>>), t, window))]

\* append (current_time, tag) to the person's log, then prune it
RecordNegative(S, person_id, t, tag, window) ==
    [S EXCEPT !.nbt = Put(S.nbt, person_id,
        PruneLog(Append(Get(S.nbt, person_id, <<>>), <<t, tag>>), t, window))]

\* a label search that looks for the rude keywords first
behavior_label_rude_first(reasoning) ==
    IF "rude" \in reasoning THEN "rude"
    ELSE IF "insult" \in reasoning THEN "insult"
    ELSE IF "harassment" \in reasoning THEN "harassment"
    ELSE IF "threat" \in reasoning THEN "threat"
    ELSE "none"

\* first label of REASONING_BEHAVIOR_LABELS with a hit, in dictionary order
behavior_label(reasoning) ==
    IF "insult" \in reasoning THEN "insult"
    ELSE IF "harassment" \in reasoning THEN "harassment"
    ELSE IF "threat" \in reasoning THEN "threat"
    ELSE IF "rude" \in reasoning THEN "rude"
    ELSE "none"

\* first tier of REASONING_POSITIVE_LABELS with a hit, in dictionary order
positive_tier(reasoning) ==
    IF "high" \in reasoning THEN "high"
    ELSE IF "mid" \in reasoning THEN "mid"
    ELSE IF "low" \in reasoning THEN "low"
    ELSE "none"

---------------------------------------------------------------------------
(* FavorabilityEventHandler.execute (AFTER_LLM), tier by tier.              *)
(* S is the state on entry, c the configuration, t current_time, m the      *)
(* message; each tier yields the state and the report on return.            *)

\* a daily gain whose counter is never reset when the date changes
NormalTier_no_rollover(S, c, t, person_id, m) ==
    IF m.len >= min_normal_len(c)
    THEN LET last_interaction == Get(S.nit, person_id, 0)
             today == Today(t)
             tracker == Get(S.dng, person_id, [date |-> today, count |-> 0])
             S1 == [S EXCEPT !.dng = Put(S.dng, person_id, tracker)]
         IN IF t - last_interaction < normal_cooldown(c)
            THEN Ret(S, "normal_cooldown")
            ELSE IF tracker.count >= daily_limit(c)
            THEN Ret(S1, "daily_cap")
            ELSE Scored(
                    [S1 EXCEPT !.nit = Put(S.nit, person_id, t),
                               !.dng = Put(S.dng, person_id,
                                   [tracker EXCEPT !.count = @ + normal_delta(c)])],
                    person_id, normal_delta(c), "neutral", t, "normal")
    ELSE Ret(S, "no_signal")

\* a daily gain that notes the time of an event held back by the daily cap
NormalTier_seen_at_cap(S, c, t, person_id, m) ==
    IF m.len >= min_normal_len(c)
    THEN LET last_interaction == Get(S.nit, person_id, 0)
             today == Today(t)
             created == Get(S.dng, person_id, [date |-> today, count |-> 0])
             tracker == IF created.date # today
                        THEN [date |-> today, count |-> 0]
                        ELSE created
             S1 == [S EXCEPT !.dng = Put(S.dng, person_id, tracker)]
         IN IF t - last_interaction < normal_cooldown(c)
            THEN Ret(S, "normal_cooldown")
            ELSE IF tracker.count >= daily_limit(c)
            THEN Ret([S1 EXCEPT !.nit = Put(S.nit, person_id, t)], "daily_cap")
            ELSE Scored(
                    [S1 EXCEPT !.nit = Put(S.nit, person_id, t),
                               !.dng = Put(S.dng, person_id,
                                   [tracker EXCEPT !.count = @ + normal_delta(c)])],
                    person_id, normal_delta(c), "neutral", t, "normal")
    ELSE Ret(S, "no_signal")

\* daily interaction gain, with its cooldown and its daily cap
NormalTier(S, c, t, person_id, m) ==
    IF m.len >= min_normal_len(c)
    THEN LET last_interaction == Get(S.nit, person_id, 0)
             today == Today(t)
             created == Get(S.dng, person_id, [date |-> today, count |-> 0])
             tracker == IF created.date # today
                        THEN [date |-> today, count |-> 0]
                        ELSE created
             S1 == [S EXCEPT !.dng = Put(S.dng, person_id, tracker)]
         IN IF t - last_interaction < normal_cooldown(c)
            THEN Ret(S, "normal_cooldown")
            ELSE IF tracker.count >= daily_limit(c)
            THEN Ret(S1, "daily_cap")
            ELSE Scored(
                    [S1 EXCEPT !.nit = Put(S.nit, person_id, t),
                               !.dng = Put(S.dng, person_id,
                                   [tracker EXCEPT !.count = @ + normal_delta(c)])],
                    person_id, normal_delta(c), "neutral", t, "normal")
    ELSE Ret(S, "no_signal")

\* a positive tier whose bonus needs a text strictly longer than 3 x minimum
PositiveTier_gt(S, c, t, person_id, m) ==
    LET last_positive == Get(S.pit, person_id, 0)
        boost_delta == IF m.len > min_positive_len(c) * 3
                       THEN positive_delta(c) + positive_bonus_delta(c)
                       ELSE positive_delta(c)
    IN IF m.len < min_positive_len(c)
       THEN Ret(S, "positive_short")
       ELSE IF t - last_positive < positive_cooldown(c)
       THEN Ret(S, "positive_cooldown")
       ELSE Scored([S EXCEPT !.pit = Put(S.pit, person_id, t)],
                   person_id, boost_delta, "positive", t, "positive")

\* a positive tier that adds the length bonus to every gain
PositiveTier_always_bonus(S, c, t, person_id, m) ==
    LET last_positive == Get(S.pit, person_id, 0)
    IN IF m.len < min_positive_len(c)
       THEN Ret(S, "positive_short")
       ELSE IF t - last_positive < positive_cooldown(c)
       THEN Ret(S, "positive_cooldown")
       ELSE Scored([S EXCEPT !.pit = Put(S.pit, person_id, t)],
                   person_id, positive_delta(c) + positive_bonus_delta(c),
                   "positive", t, "positive")

\* POSITIVE_KEYWORDS hit
PositiveTier(S, c, t, person_id, m) ==
    LET last_positive == Get(S.pit, person_id, 0)
        boost_delta == IF m.len >= min_positive_len(c) * 3
                       THEN positive_delta(c) + positive_bonus_delta(c)
                       ELSE positive_delta(c)
    IN IF m.len < min_positive_len(c)
       THEN Ret(S, "positive_short")
       ELSE IF t - last_positive < positive_cooldown(c)
       THEN Ret(S, "positive_cooldown")
       ELSE Scored([S EXCEPT !.pit = Put(S.pit, person_id, t)],
                   person_id, boost_delta, "positive", t, "positive")

\* an affectionate tier that reports its gain as a neutral interaction
AffectionateTier_neutral(S, c, t, person_id, m) ==
    LET last_positive == Get(S.pit, person_id, 0)
    IN IF m.len < min_positive_len(c)
       THEN Ret(S, "affectionate_short")
       ELSE IF t - last_positive < positive_cooldown(c)
       THEN Ret(S, "affectionate_cooldown")
       ELSE Scored([S EXCEPT !.pit = Put(S.pit, person_id, t)],
                   person_id, affectionate_delta(c), "neutral", t, "affectionate")

\* an affectionate tier whose suppressed hits restart the cooldown
AffectionateTier_refresh_on_cooldown(S, c, t, person_id, m) ==
    LET last_positive == Get(S.pit, person_id, 0)
    IN IF m.len < min_positive_len(c)
       THEN Ret(S, "affectionate_short")
       ELSE IF t - last_positive < positive_cooldown(c)
       THEN Ret([S EXCEPT !.pit = Put(S.pit, person_id, t)], "affectionate_cooldown")
       ELSE Scored([S EXCEPT !.pit = Put(S.pit, person_id, t)],
                   person_id, affectionate_delta(c), "positive", t, "affectionate")

\* AFFECTIONATE_KEYWORDS hit
AffectionateTier(S, c, t, person_id, m) ==
    LET last_positive == Get(S.pit, person_id, 0)
    IN IF m.len < min_positive_len(c)
       THEN Ret(S, "affectionate_short")
       ELSE IF t - last_positive < positive_cooldown(c)
       THEN Ret(S, "affectionate_cooldown")
       ELSE Scored([S EXCEPT !.pit = Put(S.pit, person_id, t)],
                   person_id, affectionate_delta(c), "positive", t, "affectionate")

\* a softened delta without the floor of -1
adjusted_negative_delta_nofloor(negative, soften_negative) ==
    IF soften_negative THEN IntHalf(negative) ELSE negative

\* adjusted_negative_delta of the ordinary negative tier
adjusted_negative_delta(negative, soften_negative) ==
    IF soften_negative THEN Min(-1, IntHalf(negative)) ELSE negative

\* an ordinary negative tier that escalates only the hit that reaches the
\* threshold, not the hits beyond it
NegativeTier_once(S, c, t, person_id, m) ==
    LET adjusted == adjusted_negative_delta(negative_delta(c), "soften" \in m.kw)
        S1 == RecordNegative(S, person_id, t, "negative", harassment_window(c))
        recent_count == Len(S1.nbt[person_id])
        last_negative == Get(S.ngt, person_id, 0)
    IN IF recent_count = harassment_threshold(c)
       THEN Scored([S1 EXCEPT !.ngt = Put(S.ngt, person_id, t)],
                   person_id, harassment_delta(c), "negative", t, "harassment")
       ELSE IF t - last_negative < negative_cooldown(c)
       THEN Ret(S1, "negative_cooldown")
       ELSE Scored([S1 EXCEPT !.ngt = Put(S.ngt, person_id, t)],
                   person_id, adjusted, "negative", t, "negative")

\* NEGATIVE_KEYWORDS hit
NegativeTier(S, c, t, person_id, m) ==
    LET adjusted == adjusted_negative_delta(negative_delta(c), "soften" \in m.kw)
        S1 == RecordNegative(S, person_id, t, "negative", harassment_window(c))
        recent_count == Len(S1.nbt[person_id])
        last_negative == Get(S.ngt, person_id, 0)
    IN IF recent_count >= harassment_threshold(c)
       THEN Scored([S1 EXCEPT !.ngt = Put(S.ngt, person_id, t)],
                   person_id, harassment_delta(c), "negative", t, "harassment")
       ELSE IF t - last_negative < negative_cooldown(c)
       THEN Ret(S1, "negative_cooldown")
       ELSE Scored([S1 EXCEPT !.ngt = Put(S.ngt, person_id, t)],
                   person_id, adjusted, "negative", t, "negative")

\* MILD_NEGATIVE_KEYWORDS hit
MildTier(S, c, t, person_id, m) ==
    LET last_negative == Get(S.ngt, person_id, 0)
    IN IF t - last_negative < negative_cooldown(c)
       THEN Ret(S, "mild_cooldown")
       ELSE Scored([S EXCEPT !.ngt = Put(S.ngt, person_id, t)],
                   person_id, mild_negative_delta(c), "negative", t, "mild")

\* a severe tier that scores every hit with harassment_delta
SevereTier_always_escalated(S, c, t, person_id, m) ==
    LET S1 == RecordNegative(S, person_id, t, "severe", harassment_window(c))
    IN Scored([S1 EXCEPT !.ngt = Put(S.ngt, person_id, t)],
              person_id, harassment_delta(c), "negative", t, "harassment")

\* SEVERE_KEYWORDS hit
SevereTier(S, c, t, person_id, m) ==
    LET S1 == RecordNegative(S, person_id, t, "severe", harassment_window(c))
        recent_count == Len(S1.nbt[person_id])
        last_negative == Get(S.ngt, person_id, 0)
    IN IF recent_count >= harassment_threshold(c)
       THEN Scored([S1 EXCEPT !.ngt = Put(S.ngt, person_id, t)],
                   person_id, harassment_delta(c), "negative", t, "harassment")
       ELSE IF t - last_negative < negative_cooldown(c)
       THEN Ret(S1, "severe_cooldown")
       ELSE Scored([S1 EXCEPT !.ngt = Put(S.ngt, person_id, t)],
                   person_id, severe_delta(c), "negative", t, "severe")

\* keyword loops that look for the positive keywords first
KeywordTiers_positive_first(S, c, t, person_id, m) ==
    IF "positive" \in m.kw THEN PositiveTier(S, c, t, person_id, m)
    ELSE IF "affectionate" \in m.kw THEN AffectionateTier(S, c, t, person_id, m)
    ELSE IF "severe" \in m.kw THEN SevereTier(S, c, t, person_id, m)
    ELSE IF "mild" \in m.kw THEN MildTier(S, c, t, person_id, m)
    ELSE IF "negative" \in m.kw THEN NegativeTier(S, c, t, person_id, m)
    ELSE NormalTier(S, c, t, person_id, m)

\* the keyword loops, in the order of the code
KeywordTiers(S, c, t, person_id, m) ==
    IF "severe" \in m.kw THEN SevereTier(S, c, t, person_id, m)
    ELSE IF "mild" \in m.kw THEN MildTier(S, c, t, person_id, m)
    ELSE IF "negative" \in m.kw THEN NegativeTier(S, c, t, person_id, m)
    ELSE IF "affectionate" \in m.kw THEN AffectionateTier(S, c, t, person_id, m)
    ELSE IF "positive" \in m.kw THEN PositiveTier(S, c, t, person_id, m)
    ELSE NormalTier(S, c, t, person_id, m)

\* reasoning-based detection; a label or tier under cooldown does not return
ReasoningDetection(S, c, t, person_id, m) ==
    LET hedge_detected == "hedge" \in m.reasoning
        label == behavior_label(m.reasoning)
        tier == positive_tier(m.reasoning)
        last_negative == Get(S.ngt, person_id, 0)
        last_positive == Get(S.pit, person_id, 0)
        neg_delta == IF label = "rude" THEN mild_negative_delta(c)
                     ELSE negative_delta(c)
        tier_bonus == IF tier = "high" THEN reasoning_positive_bonus_high(c)
                      ELSE IF tier = "mid" THEN reasoning_positive_bonus_mid(c)
                      ELSE reasoning_positive_bonus_low(c)
        pos_delta == reasoning_positive_delta(c) + tier_bonus - 1
    IN IF label # "none" /\ hedge_detected
       THEN Ret(S, "hedge")
       ELSE IF label # "none" /\ t - last_negative >= negative_cooldown(c)
       THEN IF neg_delta # 0
            THEN Scored([S EXCEPT !.ngt = Put(S.ngt, person_id, t)],
                        person_id, neg_delta, "negative", t, "reasoning_negative")
            ELSE Ret(S, "reasoning_negative_disabled")
       ELSE IF tier # "none" /\ t - last_positive >= positive_cooldown(c)
       THEN Scored([S EXCEPT !.pit = Put(S.pit, person_id, t)],
                   person_id, pos_delta, "positive", t, "reasoning_positive")
       ELSE KeywordTiers(S, c, t, person_id, m)

\* a not-talking branch that penalises every behaviour label, "rude" included
NotTalkingToMe_any_label(S, c, t, person_id, m) ==
    LET others_targeted == "others_target" \in m.reasoning
        label == behavior_label(m.reasoning)
        last_negative == Get(S.ngt, person_id, 0)
        last_interaction == Get(S.nit, person_id, 0)
    IN IF others_targeted /\ label # "none"
       THEN IF t - last_negative >= negative_cooldown(c)
            THEN Scored([S EXCEPT !.ngt = Put(S.ngt, person_id, t)],
                        person_id, negative_delta(c), "negative", t, "others_penalty")
            ELSE Ret(S, "others_cooldown")
       ELSE IF t - last_interaction >= interaction_cooldown(c)
            THEN Ret([S EXCEPT !.nit = Put(S.nit, person_id, t)], "not_talking")
            ELSE Ret(S, "not_talking")

\* the branch taken when the reasoning says the user is not talking to the bot
NotTalkingToMe(S, c, t, person_id, m) ==
    LET others_targeted == "others_target" \in m.reasoning
        label == behavior_label(m.reasoning)
        last_negative == Get(S.ngt, person_id, 0)
        last_interaction == Get(S.nit, person_id, 0)
    IN IF others_targeted /\ label \in {"insult", "harassment", "threat"}
       THEN IF t - last_negative >= negative_cooldown(c)
            THEN Scored([S EXCEPT !.ngt = Put(S.ngt, person_id, t)],
                        person_id, negative_delta(c), "negative", t, "others_penalty")
            ELSE Ret(S, "others_cooldown")
       ELSE IF t - last_interaction >= interaction_cooldown(c)
            THEN Ret([S EXCEPT !.nit = Put(S.nit, person_id, t)], "not_talking")
            ELSE Ret(S, "not_talking")

\* a handler without the reasoning-based detection
FavorabilityEventHandler_execute_keywords_only(S, c, t, person_id, m) ==
    IF ~Truthy(get_config(c, "enabled", BoolV(TRUE)))
    THEN Ret(S, "disabled")
    ELSE IF m.len = 0
    THEN Ret(S, "empty")
    ELSE IF Truthy(get_config(c, "skip_penalty_when_not_talking_to_me", BoolV(TRUE)))
            /\ "not_talking_to_me" \in m.reasoning
    THEN NotTalkingToMe(S, c, t, person_id, m)
    ELSE KeywordTiers(S, c, t, person_id, m)

FavorabilityEventHandler_execute(S, c, t, person_id, m) ==
    IF ~Truthy(get_config(c, "enabled", BoolV(TRUE)))
    THEN Ret(S, "disabled")
    ELSE IF m.len = 0
    THEN Ret(S, "empty")
    ELSE IF Truthy(get_config(c, "skip_penalty_when_not_talking_to_me", BoolV(TRUE)))
            /\ "not_talking_to_me" \in m.reasoning
    THEN NotTalkingToMe(S, c, t, person_id, m)
    ELSE IF m.reasoning # {}
            /\ Truthy(get_config(c, "reasoning_detection_enabled", BoolV(FALSE)))
    THEN ReasoningDetection(S, c, t, person_id, m)
    ELSE KeywordTiers(S, c, t, person_id, m)

---------------------------------------------------------------------------
(* UserSentimentEventHandler.execute (ON_MESSAGE) *)

UserSentimentEventHandler_execute(S, c, t, person_id, m) ==
    IF ~Truthy(get_config(c, "enabled", BoolV(TRUE)))
    THEN Ret(S, "disabled")
    ELSE IF m.len = 0
    THEN Ret(S, "empty")
    ELSE IF "severe" \in m.kw
    THEN LET S1 == RecordNegative(S, person_id, t, "user_input:severe",
                                  sentiment_harassment_window(c))
             recent_count == Len(S1.nbt[person_id])
         IN IF recent_count >= sentiment_harassment_threshold(c)
            THEN Scored(S1, person_id, sentiment_harassment_delta(c), "negative", t,
                        "harassment")
            ELSE Scored(S1, person_id, sentiment_severe_delta(c), "negative", t,
                        "severe")
    ELSE Ret(S, "no_signal")

---------------------------------------------------------------------------
(* The state machine *)

\* values given to set_favorability and modify_favorability, and deltas given
\* to a direct add_favorability: beyond both ends of the score range
SetValues == {-60, 160}
AddDeltas == {-300, 300}
InteractionTypes == {"positive", "negative", "neutral"}

Current ==
    Work(Favorability, _negative_behavior_tracker, _normal_interaction_tracker,
         _positive_interaction_tracker, _negative_interaction_tracker,
         _daily_normal_gain_tracker)

Last(op, person_id, m, R, ret) ==
    [op |-> op, person |-> person_id, msg |-> m, tag |-> R.tag,
     applied |-> R.applied, delta |-> R.delta, ret |-> ret]

NoProbe == [kind |-> "none"]

\* no store call is between its read and its write
NoCall == [phase |-> "idle"]
Idle == [add |-> NoCall, modify |-> NoCall]

\* one more operation, within the budget of the run
Step(budget) ==
    /\ ops < budget
    /\ ops' = ops + 1

Commit(R) ==
    /\ Favorability' = R.db
    /\ _negative_behavior_tracker' = R.nbt
    /\ _normal_interaction_tracker' = R.nit
    /\ _positive_interaction_tracker' = R.pit
    /\ _negative_interaction_tracker' = R.ngt
    /\ _daily_normal_gain_tracker' = R.dng

Init ==
    /\ Favorability = <<>>
    /\ _negative_behavior_tracker = <<>>
    /\ _normal_interaction_tracker = <<>>
    /\ _positive_interaction_tracker = <<>>
    /\ _negative_interaction_tracker = <<>>
    /\ _daily_normal_gain_tracker = <<>>
    /\ config \in Configs
    /\ now = StartTime
    /\ last = Last("init", "none", NoMsg, Current, 0)
    /\ ops = 0
    /\ probe = NoProbe
    /\ inflight = Idle

\* the bot has replied to a message of person_id (one of the texts M)
AfterLLMOf(M, budget) ==
    \E person_id \in Persons, m \in M :
        LET R == FavorabilityEventHandler_execute(Current, config, now, person_id, m)
        IN /\ Step(budget)
           /\ Commit(R)
           /\ last' = Last("after_llm", person_id, m, R, 0)
           /\ UNCHANGED <<config, now, probe, inflight>>

\* a message of person_id has arrived (one of the texts M)
OnMessageOf(M, budget) ==
    \E person_id \in Persons, m \in M :
        LET R == UserSentimentEventHandler_execute(Current, config, now, person_id, m)
        IN /\ Step(budget)
           /\ Commit(R)
           /\ last' = Last("on_message", person_id, m, R, 0)
           /\ UNCHANGED <<config, now, probe, inflight>>

\* a second passes
TickOf(budget) ==
    /\ now < MaxTime
    /\ ops < budget
    /\ now' = now + 1
    /\ last' = Last("tick", "none", NoMsg, Current, 0)
    /\ UNCHANGED <<Favorability, _negative_behavior_tracker,
                   _normal_interaction_tracker, _positive_interaction_tracker,
                   _negative_interaction_tracker, _daily_normal_gain_tracker,
                   config, ops, probe, inflight>>

AfterLLM == AfterLLMOf(Messages, MaxOps)

OnMessage == OnMessageOf(Messages, MaxOps)

Tick == TickOf(MaxOps)

\* a direct call of add_favorability
AddFavorability ==
    \E person_id \in Persons, delta \in AddDeltas, type \in InteractionTypes :
        LET R == Scored(Current, person_id, delta, type, now, "add_favorability")
        IN /\ Step(MaxOps)
           /\ Commit(R)
           /\ last' = Last("add_favorability", person_id, NoMsg, R,
                           add_favorability_value(Favorability, person_id, delta))
           /\ UNCHANGED <<config, now, probe, inflight>>

\* a call of set_favorability
SetFavorability ==
    \E person_id \in Persons, value \in SetValues :
        LET R == [Current EXCEPT
                    !.db = set_favorability(Favorability, person_id, value, now),
                    !.tag = "set_favorability"]
        IN /\ Step(MaxOps)
           /\ Commit(R)
           /\ last' = Last("set_favorability", person_id, NoMsg, R, 0)
           /\ UNCHANGED <<config, now, probe, inflight>>

\* the administrator runs the script's modify_favorability
ModifyFavorability ==
    \E person_id \in Persons, value \in SetValues :
        LET R == [Current EXCEPT
                    !.db = modify_favorability(Favorability, person_id, value, now),
                    !.tag = "modify_favorability"]
        IN /\ Step(MaxOps)
           /\ Commit(R)
           /\ last' = Last("modify_favorability", person_id, NoMsg, R, 0)
           /\ UNCHANGED <<config, now, probe, inflight>>

\* The engine: both handlers on every text, the store functions, the script.
Next ==
    \/ AfterLLM
    \/ OnMessage
    \/ AddFavorability
    \/ SetFavorability
    \/ ModifyFavorability
    \/ Tick

Spec == Init /\ [][Next]_vars

\* The negative keyword tiers alone, for runs one operation longer.
NegativeAfterLLM == AfterLLMOf(NegativeMessages, MaxOps + 1)

NegativeOnMessage == OnMessageOf(NegativeMessages, MaxOps + 1)

NegativeTick == TickOf(MaxOps + 1)

NextNegative ==
    \/ NegativeAfterLLM
    \/ NegativeOnMessage
    \/ NegativeTick

SpecNegative == Init /\ [][NextNegative]_vars

---------------------------------------------------------------------------
(* Probes of the pure parts: the band classifier on pairs of scores, and the *)
(* ordinary negative tier on a fresh engine for every configured            *)
(* negative_delta, softened or not.                                         *)

ProbeScores == (-50 - ProbeMargin)..(150 + ProbeMargin)
ProbeDeltas == (-ProbeDelta)..ProbeDelta

ProbeLevel ==
    /\ probe = NoProbe
    /\ \E s1 \in ProbeScores, s2 \in ProbeScores :
          probe' = [kind |-> "level",
                    s1 |-> s1, l1 |-> get_favorability_level(s1),
                    s2 |-> s2, l2 |-> get_favorability_level(s2)]
    /\ UNCHANGED <<Favorability, _negative_behavior_tracker,
                   _normal_interaction_tracker, _positive_interaction_tracker,
                   _negative_interaction_tracker, _daily_normal_gain_tracker,
                   config, now, last, ops, inflight>>

ProbeSoften ==
    /\ probe = NoProbe
    /\ \E nd \in ProbeDeltas, soften \in BOOLEAN, person_id \in Persons :
          LET c == [config EXCEPT !.negative_delta = IntV(nd)]
              m == Msg(IF soften THEN {"negative", "soften"} ELSE {"negative"}, 6, {})
              R == FavorabilityEventHandler_execute(
                       Work(<<>>, <<>>, <<>>, <<>>, <<>>, <<>>), c, now, person_id, m)
          IN probe' = [kind |-> "soften", negative_delta |-> nd, soften |-> soften,
                       tag |-> R.tag, applied |-> R.applied, delta |-> R.delta]
    /\ UNCHANGED <<Favorability, _negative_behavior_tracker,
                   _normal_interaction_tracker, _positive_interaction_tracker,
                   _negative_interaction_tracker, _daily_normal_gain_tracker,
                   config, now, last, ops, inflight>>

NextProbe ==
    \/ ProbeLevel
    \/ ProbeSoften

SpecProbe == Init /\ [][NextProbe]_vars

---------------------------------------------------------------------------
(* A person whose score was set by hand and who then sends negative texts. *)

\* scores given to the person before the texts: one in the [10,29] band and
\* one from which an escalated penalty reaches the lower end of the range
ScenarioScores == {10, -40}

ScenarioSet ==
    \E person_id \in Persons, value \in ScenarioScores :
        LET R == [Current EXCEPT
                    !.db = set_favorability(Favorability, person_id, value, now),
                    !.tag = "set_favorability"]
        IN /\ person_id \notin DOMAIN Favorability
           /\ Step(MaxOps + 1)
           /\ Commit(R)
           /\ last' = Last("set_favorability", person_id, NoMsg, R, 0)
           /\ UNCHANGED <<config, now, probe, inflight>>

NextScenario ==
    \/ ScenarioSet
    \/ NegativeAfterLLM
    \/ NegativeTick

SpecScenario == Init /\ [][NextScenario]_vars

---------------------------------------------------------------------------
(* The bot's add_favorability and the script's modify_favorability as two   *)
(* processes on one database: each reads the row (get_or_none), changes the *)
(* record object it got, and writes that object back (save).  Handler       *)
(* events of the bot run whole, as in the other specifications.             *)

\* record.save(): the row becomes the record object the call read and changed
add_favorability_save(db, person_id, record, delta, interaction_type, t) ==
    Put(db, person_id,
        add_favorability(Put(db, person_id, record), person_id, delta,
                         interaction_type, t)[person_id])

modify_favorability_save(db, person_id, record, new_value, t) ==
    Put(db, person_id,
        modify_favorability(Put(db, person_id, record), person_id, new_value,
                            t)[person_id])

\* deltas a handler passes to add_favorability, and the interaction type it
\* passes with them
RaceDeltas(c) == {negative_delta(c), affectionate_delta(c)}
RaceType(delta) == IF delta < 0 THEN "negative" ELSE "positive"

\* a call that has read the row of person_id; first: no other call had read
Call(phase, person_id, record, arg, first) ==
    [phase |-> phase, person |-> person_id, record |-> record, arg |-> arg,
     first |-> first, ops |-> ops]

RaceUnchanged ==
    UNCHANGED <<_negative_behavior_tracker, _normal_interaction_tracker,
                _positive_interaction_tracker, _negative_interaction_tracker,
                _daily_normal_gain_tracker, config, now, ops, probe>>

\* add_favorability: record = Favorability.get_or_none(...), row present
RaceAddRead ==
    \E person_id \in Persons, delta \in RaceDeltas(config) :
        /\ inflight.add.phase = "idle"
        /\ person_id \in DOMAIN Favorability
        /\ inflight' = [inflight EXCEPT !.add =
              Call("read", person_id, Favorability[person_id], delta,
                   inflight.modify.phase = "idle")]
        /\ last' = Last("add_favorability_read", person_id, NoMsg, Current, 0)
        /\ UNCHANGED Favorability
        /\ RaceUnchanged

\* add_favorability: record.save()
RaceAddWrite ==
    LET call == inflight.add
    IN /\ call.phase = "read"
       /\ Favorability' = add_favorability_save(Favorability, call.person,
              call.record, call.arg, RaceType(call.arg), now)
       /\ inflight' = [inflight EXCEPT !.add.phase = "done"]
       /\ last' = Last("add_favorability_save", call.person, NoMsg, Current, 0)
       /\ RaceUnchanged

\* modify_favorability: record = Favorability.get_or_none(...), row present
RaceModifyRead ==
    \E person_id \in Persons, value \in SetValues :
        /\ inflight.modify.phase = "idle"
        /\ person_id \in DOMAIN Favorability
        /\ inflight' = [inflight EXCEPT !.modify =
              Call("read", person_id, Favorability[person_id], value,
                   inflight.add.phase = "idle")]
        /\ last' = Last("modify_favorability_read", person_id, NoMsg, Current, 0)
        /\ UNCHANGED Favorability
        /\ RaceUnchanged

\* modify_favorability: record.save()
RaceModifyWrite ==
    LET call == inflight.modify
    IN /\ call.phase = "read"
       /\ Favorability' = modify_favorability_save(Favorability, call.person,
              call.record, call.arg, now)
       /\ inflight' = [inflight EXCEPT !.modify.phase = "done"]
       /\ last' = Last("modify_favorability_save", call.person, NoMsg, Current, 0)
       /\ RaceUnchanged

RaceAfterLLM == AfterLLMOf(NegativeMessages, MaxOps - 1)

RaceTick == TickOf(MaxOps - 1)

NextRace ==
    \/ RaceAfterLLM
    \/ RaceTick
    \/ RaceAddRead
    \/ RaceAddWrite
    \/ RaceModifyRead
    \/ RaceModifyWrite

SpecRace == Init /\ [][NextRace]_vars

---------------------------------------------------------------------------
(* Store failures: the database raises inside a store function, at its     *)
(* read or at its write.  A statement that raised has written nothing.     *)

NoRecord == "None"

\* get_favorability with its except branch
get_favorability_call(db, person_id, fails) ==
    IF fails THEN 50 ELSE get_favorability(db, person_id)

\* get_favorability_record with its except branch
get_favorability_record(db, person_id, fails) ==
    IF fails THEN NoRecord ELSE Get(db, person_id, NoRecord)

\* a set_favorability that stores the row and then reports the failure
set_favorability_call_partial(db, person_id, value, t, fails) ==
    [db |-> set_favorability(db, person_id, value, t), ret |-> ~fails]

\* set_favorability with its except branch: the table afterwards and the result
set_favorability_call(db, person_id, value, t, fails) ==
    IF fails THEN [db |-> db, ret |-> FALSE]
    ELSE [db |-> set_favorability(db, person_id, value, t), ret |-> TRUE]

\* add_favorability with its except branch: the table afterwards and the result
add_favorability_call(db, person_id, delta, interaction_type, t, fails) ==
    IF fails THEN [db |-> db, ret |-> 50]
    ELSE [db |-> add_favorability(db, person_id, delta, interaction_type, t),
          ret |-> add_favorability_value(db, person_id, delta)]

\* a handler whose add_favorability call raised inside: the call returned 50,
\* which the handler only logs, and the handler went on as after a success
StoreFails(S, R) == [R EXCEPT !.db = S.db]

\* what a store call did: the function, ok or failed, and the value returned
Called(op, person_id, fails, ret) ==
    [op |-> op, person |-> person_id, msg |-> NoMsg,
     tag |-> IF fails THEN "failed" ELSE "ok",
     applied |-> FALSE, delta |-> 0, ret |-> ret]

TrackersUnchanged ==
    UNCHANGED <<_negative_behavior_tracker, _normal_interaction_tracker,
                _positive_interaction_tracker, _negative_interaction_tracker,
                _daily_normal_gain_tracker>>

\* texts of the tiers that write a tracker before they call add_favorability
FailureMessages == NegativeMessages \cup {Msg({}, 6, {})}

FailureAfterLLM == AfterLLMOf(FailureMessages, MaxOps)

FailureTick == TickOf(MaxOps)

\* an after-reply event whose store write fails
FailedAfterLLM ==
    \E person_id \in Persons, m \in FailureMessages :
        LET R == FavorabilityEventHandler_execute(Current, config, now, person_id, m)
        IN /\ R.applied
           /\ Step(MaxOps)
           /\ Commit(StoreFails(Current, R))
           /\ last' = Last("after_llm_failed", person_id, m, R, 50)
           /\ UNCHANGED <<config, now, probe, inflight>>

\* an on-message event whose store write fails
FailedOnMessage ==
    \E person_id \in Persons, m \in FailureMessages :
        LET R == UserSentimentEventHandler_execute(Current, config, now, person_id, m)
        IN /\ R.applied
           /\ Step(MaxOps)
           /\ Commit(StoreFails(Current, R))
           /\ last' = Last("on_message_failed", person_id, m, R, 50)
           /\ UNCHANGED <<config, now, probe, inflight>>

GetFavorabilityCall ==
    \E person_id \in Persons, fails \in BOOLEAN :
        /\ Step(MaxOps)
        /\ last' = Called("get_favorability", person_id, fails,
                          get_favorability_call(Favorability, person_id, fails))
        /\ UNCHANGED <<Favorability, config, now, probe, inflight>>
        /\ TrackersUnchanged

GetFavorabilityRecordCall ==
    \E person_id \in Persons, fails \in BOOLEAN :
        /\ Step(MaxOps)
        /\ last' = Called("get_favorability_record", person_id, fails,
                          get_favorability_record(Favorability, person_id, fails))
        /\ UNCHANGED <<Favorability, config, now, probe, inflight>>
        /\ TrackersUnchanged

SetFavorabilityCall ==
    \E person_id \in Persons, value \in SetValues, fails \in BOOLEAN :
        LET r == set_favorability_call(Favorability, person_id, value, now, fails)
        IN /\ Step(MaxOps)
           /\ Favorability' = r.db
           /\ last' = Called("set_favorability", person_id, fails, r.ret)
           /\ UNCHANGED <<config, now, probe, inflight>>
           /\ TrackersUnchanged

AddFavorabilityCall ==
    \E person_id \in Persons, delta \in RaceDeltas(config), fails \in BOOLEAN :
        LET r == add_favorability_call(Favorability, person_id, delta,
                                       RaceType(delta), now, fails)
        IN /\ Step(MaxOps)
           /\ Favorability' = r.db
           /\ last' = Called("add_favorability", person_id, fails, r.ret)
           /\ UNCHANGED <<config, now, probe, inflight>>
           /\ TrackersUnchanged

\* FavorabilityCommand.execute: reads the sender's score, band and record
\* and replies with them; last.ret is the score of the reply
FavorabilityCommandCall ==
    \E person_id \in Persons :
        LET fav == get_favorability_call(Favorability, person_id, FALSE)
        IN /\ Step(MaxOps)
           /\ last' = Called("favorability_command", person_id, FALSE, fav)
           /\ UNCHANGED <<Favorability, config, now, probe, inflight>>
           /\ TrackersUnchanged

NextFailure ==
    \/ FailureAfterLLM
    \/ FailureTick
    \/ FailedAfterLLM
    \/ FailedOnMessage
    \/ GetFavorabilityCall
    \/ GetFavorabilityRecordCall
    \/ SetFavorabilityCall
    \/ AddFavorabilityCall
    \/ FavorabilityCommandCall

SpecFailure == Init /\ [][NextFailure]_vars

---------------------------------------------------------------------------
(* The engine under a configuration file with one malformed delta.  The     *)
(* time tunables stay well formed: their defaults are real-time seconds.    *)

\* the defaults of config_schema["favorability"] for the delta keys
SchemaDefault(key) ==
    CASE key = "positive_delta" -> 1
      [] key = "affectionate_delta" -> 3
      [] key = "negative_delta" -> -5
      [] key = "mild_negative_delta" -> -1
      [] key = "severe_delta" -> -5
      [] key = "harassment_delta" -> -5
      [] key = "normal_delta" -> 1

DeltaKeys == {"positive_delta", "affectionate_delta", "negative_delta",
              "mild_negative_delta", "severe_delta", "harassment_delta",
              "normal_delta"}

\* values _get_int_config cannot read as a number
MalformedValues == {BoolV(TRUE), DictV, BadStrV, NoneV}

\* the configuration with one key malformed, or missing
MalformedConfigs ==
    {[EngineConfig EXCEPT ![key] = bad] : key \in DeltaKeys, bad \in MalformedValues}
    \cup {[k \in DOMAIN EngineConfig \ {key} |-> EngineConfig[k]] : key \in DeltaKeys}

InitConfig ==
    /\ Favorability = <<>>
    /\ _negative_behavior_tracker = <<>>
    /\ _normal_interaction_tracker = <<>>
    /\ _positive_interaction_tracker = <<>>
    /\ _negative_interaction_tracker = <<>>
    /\ _daily_normal_gain_tracker = <<>>
    /\ config \in MalformedConfigs
    /\ now = StartTime
    /\ last = Last("init", "none", NoMsg, Current, 0)
    /\ ops = 0
    /\ probe = NoProbe
    /\ inflight = Idle

ConfigAfterLLM == AfterLLMOf(Messages, MaxOps - 1)

ConfigOnMessage == OnMessageOf(NegativeMessages, MaxOps - 1)

ConfigTick == TickOf(MaxOps - 1)

NextConfig ==
    \/ ConfigAfterLLM
    \/ ConfigOnMessage
    \/ ConfigTick

SpecConfig == InitConfig /\ [][NextConfig]_vars

---------------------------------------------------------------------------
(* The process restarts: the tracker dictionaries are module-level          *)
(* variables and start empty again, the table is in the database and stays. *)

RestartMessages ==
    {Msg({}, 6, {}), Msg({"positive"}, 12, {}), Msg({"negative"}, 6, {}),
     Msg({"severe"}, 6, {})}

RestartAfterLLM == AfterLLMOf(RestartMessages, MaxOps)

RestartOnMessage == OnMessageOf({Msg({"severe"}, 6, {})}, MaxOps)

RestartTick == TickOf(MaxOps)

\* the module is loaded again
Restart ==
    /\ \/ _negative_behavior_tracker # <<>>
       \/ _normal_interaction_tracker # <<>>
       \/ _positive_interaction_tracker # <<>>
       \/ _negative_interaction_tracker # <<>>
       \/ _daily_normal_gain_tracker # <<>>
    /\ _negative_behavior_tracker' = <<>>
    /\ _normal_interaction_tracker' = <<>>
    /\ _positive_interaction_tracker' = <<>>
    /\ _negative_interaction_tracker' = <<>>
    /\ _daily_normal_gain_tracker' = <<>>
    /\ last' = [Last("restart", "none", NoMsg, Current, 0) EXCEPT !.tag = "restart"]
    /\ UNCHANGED <<Favorability, config, now, ops, probe, inflight>>

NextRestart ==
    \/ RestartAfterLLM
    \/ RestartOnMessage
    \/ RestartTick
    \/ SetFavorability
    \/ Restart

SpecRestart == Init /\ [][NextRestart]_vars

---------------------------------------------------------------------------
(* The after-reply handler on every text, with the texts whose reasoning    *)
(* says the user is not talking to the bot or hedges its judgment.          *)

SuppressMessages ==
    Messages \cup {Msg({"severe"}, 6, {"not_talking_to_me"}),
                   Msg({}, 6, {"insult", "hedge"})}

SuppressAfterLLM == AfterLLMOf(SuppressMessages, MaxOps)

SuppressTick == TickOf(MaxOps)

NextSuppress ==
    \/ SuppressAfterLLM
    \/ SuppressTick

SpecSuppress == Init /\ [][NextSuppress]_vars

---------------------------------------------------------------------------
(* Two persons: the handlers keep one row and one entry of each tracker per *)
(* person_id.                                                               *)

PairPersons == {"p1", "p2"}

\* texts that reach each of the five trackers
PairMessages ==
    {Msg({"severe"}, 6, {}), Msg({"positive"}, 12, {}), Msg({}, 6, {}),
     Msg({}, 6, {"not_talking_to_me"})}

\* the bot has replied to a message of one of the two persons
PairAfterLLM ==
    \E person_id \in PairPersons, m \in PairMessages :
        LET R == FavorabilityEventHandler_execute(Current, config, now, person_id, m)
        IN /\ Step(MaxOps)
           /\ Commit(R)
           /\ last' = Last("after_llm", person_id, m, R, 0)
           /\ UNCHANGED <<config, now, probe, inflight>>

\* a message of one of the two persons has arrived
PairOnMessage ==
    \E person_id \in PairPersons, m \in PairMessages :
        LET R == UserSentimentEventHandler_execute(Current, config, now, person_id, m)
        IN /\ Step(MaxOps)
           /\ Commit(R)
           /\ last' = Last("on_message", person_id, m, R, 0)
           /\ UNCHANGED <<config, now, probe, inflight>>

PairTick == TickOf(MaxOps)

NextPair ==
    \/ PairAfterLLM
    \/ PairOnMessage
    \/ PairTick

SpecPair == Init /\ [][NextPair]_vars

---------------------------------------------------------------------------
(* The after-reply handler on texts with reasoning: behaviour labels and    *)
(* positive tiers with and without keywords in the text, hedged judgments,  *)
(* and the judgment that the user is not talking to the bot.                *)

ReasoningMessages ==
    {Msg({}, 6, {}),
     Msg({"severe"}, 6, {}),
     Msg({"mild"}, 6, {}),
     Msg({"negative"}, 6, {}),
     Msg({"affectionate"}, 6, {}),
     Msg({"positive"}, 12, {}),
     Msg({}, 6, {"insult"}),
     Msg({}, 6, {"rude"}),
     Msg({"positive"}, 12, {"insult"}),
     Msg({}, 6, {"high"}),
     Msg({"severe"}, 6, {"high"}),
     Msg({"severe"}, 6, {"insult", "hedge"}),
     Msg({"severe"}, 6, {"not_talking_to_me"}),
     Msg({}, 6, {"not_talking_to_me", "others_target"}),
     Msg({}, 6, {"not_talking_to_me", "insult"}),
     Msg({"severe"}, 6, {"not_talking_to_me", "others_target", "insult"}),
     Msg({}, 6, {"not_talking_to_me", "others_target", "harassment"}),
     Msg({}, 6, {"not_talking_to_me", "others_target", "threat"}),
     Msg({}, 6, {"not_talking_to_me", "others_target", "rude"})}

ReasoningAfterLLM == AfterLLMOf(ReasoningMessages, MaxOps)

ReasoningTick == TickOf(MaxOps)

NextReasoning ==
    \/ ReasoningAfterLLM
    \/ ReasoningTick

SpecReasoning == Init /\ [][NextReasoning]_vars

---------------------------------------------------------------------------
(* The after-reply handler on texts with a positive keyword, of lengths     *)
(* around min_positive_length (4) and 3 x min_positive_length (12).         *)

PositiveMessages ==
    {Msg({"positive"}, 3, {}), Msg({"positive"}, 4, {}), Msg({"positive"}, 11, {}),
     Msg({"positive"}, 12, {}), Msg({"positive"}, 13, {}),
     Msg({"affectionate"}, 12, {})}

PositiveAfterLLM == AfterLLMOf(PositiveMessages, MaxOps)

PositiveTick == TickOf(MaxOps)

NextPositive ==
    \/ PositiveAfterLLM
    \/ PositiveTick

SpecPositive == Init /\ [][NextPositive]_vars

---------------------------------------------------------------------------
(* The daily interaction gain under configurations with a gain of 1 or 2    *)
(* and a daily limit of 2 or 3.                                             *)

\* module load under one of the configurations C
InitWith(C) ==
    /\ Favorability = <<>>
    /\ _negative_behavior_tracker = <<>>
    /\ _normal_interaction_tracker = <<>>
    /\ _positive_interaction_tracker = <<>>
    /\ _negative_interaction_tracker = <<>>
    /\ _daily_normal_gain_tracker = <<>>
    /\ config \in C
    /\ now = StartTime
    /\ last = Last("init", "none", NoMsg, Current, 0)
    /\ ops = 0
    /\ probe = NoProbe
    /\ inflight = Idle

DailyConfigs ==
    {[EngineConfig EXCEPT !.normal_delta = IntV(d), !.daily_normal_limit = IntV(l)] :
        d \in {1, 2}, l \in {2, 3}}

DailyMessages == {Msg({}, 6, {}), Msg({}, 4, {}), Msg({"affectionate"}, 6, {})}

DailyAfterLLM == AfterLLMOf(DailyMessages, MaxOps)

DailyTick == TickOf(MaxOps)

NextDaily ==
    \/ DailyAfterLLM
    \/ DailyTick

SpecDaily == InitWith(DailyConfigs) /\ [][NextDaily]_vars

---------------------------------------------------------------------------
(* One message through both handlers: ON_MESSAGE when it arrives, AFTER_LLM *)
(* when the bot has replied to it.                                          *)

ReplyMessages == {Msg({"severe"}, 6, {}), Msg({"negative"}, 6, {}), Msg({}, 6, {})}

\* a message arrives
ReplyOnMessage == OnMessageOf(ReplyMessages, MaxOps + 1)

\* the bot has replied to the message that arrived last
ReplyAfterLLM ==
    /\ last.op = "on_message"
    /\ LET R == FavorabilityEventHandler_execute(Current, config, now,
                                                 last.person, last.msg)
       IN /\ Step(MaxOps + 1)
          /\ Commit(R)
          /\ last' = Last("after_llm", last.person, last.msg, R, 0)
          /\ UNCHANGED <<config, now, probe, inflight>>

\* a second passes, also while the reply is being generated
ReplyTick ==
    /\ now < MaxTime
    /\ ops < MaxOps + 1
    /\ now' = now + 1
    /\ UNCHANGED <<Favorability, _negative_behavior_tracker,
                   _normal_interaction_tracker, _positive_interaction_tracker,
                   _negative_interaction_tracker, _daily_normal_gain_tracker,
                   config, last, ops, probe, inflight>>

NextReply ==
    \/ ReplyOnMessage
    \/ ReplyAfterLLM
    \/ ReplyTick

SpecReply == Init /\ [][NextReply]_vars

---------------------------------------------------------------------------
(* The after-reply handler on texts that hold keywords of several lists.    *)

KeywordMessages ==
    {Msg(kw, 6, {}) : kw \in SUBSET {"severe", "mild", "negative", "affectionate",
                                    "positive"}}

KeywordAfterLLM == AfterLLMOf(KeywordMessages, MaxOps)

KeywordTick == TickOf(MaxOps)

NextKeyword ==
    \/ KeywordAfterLLM
    \/ KeywordTick

SpecKeyword == Init /\ [][NextKeyword]_vars

---------------------------------------------------------------------------
(* The after-reply handler on reasoning that hits several behaviour labels  *)
(* or several positive tiers, under a configuration whose three tier        *)
(* bonuses differ.                                                          *)

LabelConfigs ==
    {[EngineConfig EXCEPT !.reasoning_positive_bonus_high = IntV(3),
                          !.reasoning_positive_bonus_mid = IntV(2),
                          !.reasoning_positive_bonus_low = IntV(1)]}

LabelMessages ==
    {Msg({}, 6, labels) : labels \in SUBSET {"insult", "harassment", "threat", "rude"}}
    \cup {Msg({}, 6, tiers) : tiers \in SUBSET {"high", "mid", "low"}}

LabelAfterLLM == AfterLLMOf(LabelMessages, MaxOps)

LabelTick == TickOf(MaxOps)

NextLabel ==
    \/ LabelAfterLLM
    \/ LabelTick

SpecLabel == InitWith(LabelConfigs) /\ [][NextLabel]_vars

---------------------------------------------------------------------------
(* Sanitization of plain_text: re.sub of the quoted-reply pattern            *)
(*   \[回复<[^>]+>\s*的消息：[^\]]+\]                                        *)
(* A text is a sequence of tokens: "reply" is the head of a quoted reply,    *)
(* "[回复<nickname:id> 的消息：" with a nickname without ">", "]" is a       *)
(* closing bracket, "k" is a keyword of SEVERE_KEYWORDS, "text" is a run of  *)
(* other characters.                                                         *)

\* characters in a token
TokenLen(token) ==
    CASE token = "reply" -> 10
      [] token = "]" -> 1
      [] token = "k" -> 2
      [] token = "text" -> 6

RECURSIVE TextLen(_)
TextLen(s) == IF s = <<>> THEN 0 ELSE TokenLen(Head(s)) + TextLen(Tail(s))

\* position of the first "]" of a text, 0 without one
RECURSIVE FirstClose(_)
FirstClose(s) ==
    IF s = <<>> THEN 0
    ELSE IF Head(s) = "]" THEN 1
    ELSE IF FirstClose(Tail(s)) = 0 THEN 0
    ELSE 1 + FirstClose(Tail(s))

\* re.sub(pattern, '', content): a match is a head, one or more characters
\* other than "]", and the first "]" after them; matches are removed from
\* left to right
RECURSIVE strip_quoted_reply(_)
strip_quoted_reply(s) ==
    IF s = <<>> THEN <<>>
    ELSE IF Head(s) = "reply" /\ FirstClose(Tail(s)) >= 2
    THEN strip_quoted_reply(SubSeq(Tail(s), FirstClose(Tail(s)) + 1, Len(Tail(s))))
    ELSE <<Head(s)>> \o strip_quoted_reply(Tail(s))

\* what the handlers see of a plain_text that quotes a message and goes on
\* with the sender's own words: the keyword lists hit by the sanitized text
\* and its length
Sanitized(quoted, live) ==
    LET content == strip_quoted_reply(<<"reply">> \o quoted \o <<"]">> \o live)
    IN [kw |-> IF \E i \in DOMAIN content : content[i] = "k" THEN {"severe"} ELSE {},
        len |-> TextLen(content), reasoning |-> {},
        quoted |-> quoted, live |-> live]

\* quoted messages of up to MaxQuoted tokens, own words of up to one token
MaxQuoted == 2
QuotedTexts == UNION {[1..n -> {"text", "k", "]"}] : n \in 0..MaxQuoted}
LiveTexts == UNION {[1..n -> {"text", "k"}] : n \in 0..1}
QuoteMessages == {Sanitized(quoted, live) : quoted \in QuotedTexts, live \in LiveTexts}

QuoteAfterLLM == AfterLLMOf(QuoteMessages, MaxOps - 1)

QuoteOnMessage == OnMessageOf(QuoteMessages, MaxOps - 1)

QuoteTick == TickOf(MaxOps - 1)

NextQuote ==
    \/ QuoteAfterLLM
    \/ QuoteOnMessage
    \/ QuoteTick

SpecQuote == Init /\ [][NextQuote]_vars

---------------------------------------------------------------------------
(* Cooldowns over time: a normal cooldown longer than the interval at which  *)
(* the not-talking branch notes an interaction. The history in probe keeps,  *)
(* per person and family of deltas, the time of the last applied delta and   *)
(* the number of hits a cooldown has suppressed since.                       *)

CooldownConfigs ==
    {[EngineConfig EXCEPT !.normal_cooldown_seconds = IntV(3),
                          !.interaction_cooldown_seconds = IntV(1)]}

CooldownMessages ==
    {Msg({"severe"}, 6, {}), Msg({"mild"}, 6, {}), Msg({"affectionate"}, 6, {}),
     Msg({}, 6, {}), Msg({}, 6, {"not_talking_to_me"})}

Families == {"Positive", "Negative", "Normal"}

\* the family of the delta a branch applies
AppliedFamily(tag) ==
    CASE tag \in {"affectionate", "positive", "reasoning_positive"} -> "Positive"
      [] tag \in {"severe", "harassment", "mild", "negative", "reasoning_negative",
                  "others_penalty"} -> "Negative"
      [] tag = "normal" -> "Normal"
      [] OTHER -> "None"

\* the family of the cooldown whose branch returns without a delta
SuppressedFamily(tag) ==
    CASE tag \in {"affectionate_cooldown", "positive_cooldown"} -> "Positive"
      [] tag \in {"severe_cooldown", "mild_cooldown", "negative_cooldown",
                  "others_cooldown"} -> "Negative"
      [] tag = "normal_cooldown" -> "Normal"
      [] OTHER -> "None"

NoHistory ==
    [kind |-> "cooldown",
     since |-> [p \in Persons |-> [f \in Families |-> 0]],
     held |-> [p \in Persons |-> [f \in Families |-> 0]],
     aside |-> [p \in Persons |-> FALSE],
     overcame |-> 0]

CooldownHistory == IF probe.kind = "cooldown" THEN probe ELSE NoHistory

\* the history after the handler has returned R
Noted(H, person_id, R, t) ==
    LET applied == IF R.applied THEN AppliedFamily(R.tag) ELSE "None"
        held == SuppressedFamily(R.tag)
    IN [kind |-> "cooldown",
        since |-> IF applied \in Families
                  THEN [H.since EXCEPT ![person_id][applied] = t] ELSE H.since,
        held |-> IF applied \in Families
                 THEN [H.held EXCEPT ![person_id][applied] = 0]
                 ELSE IF held \in Families
                 THEN [H.held EXCEPT ![person_id][held] = @ + 1]
                 ELSE H.held,
        aside |-> IF applied = "Normal"
                  THEN [H.aside EXCEPT ![person_id] = FALSE]
                  ELSE IF R.tag = "not_talking"
                  THEN [H.aside EXCEPT ![person_id] = TRUE]
                  ELSE H.aside,
        overcame |-> IF applied \in Families /\ H.since[person_id][applied] > 0
                     THEN H.held[person_id][applied] ELSE 0]

CooldownAfterLLM ==
    \E person_id \in Persons, m \in CooldownMessages :
        LET R == FavorabilityEventHandler_execute(Current, config, now, person_id, m)
        IN /\ Step(MaxOps)
           /\ Commit(R)
           /\ last' = Last("after_llm", person_id, m, R, 0)
           /\ probe' = Noted(CooldownHistory, person_id, R, now)
           /\ UNCHANGED <<config, now, inflight>>

CooldownTick == TickOf(MaxOps)

NextCooldown ==
    \/ CooldownAfterLLM
    \/ CooldownTick

SpecCooldown == InitWith(CooldownConfigs) /\ [][NextCooldown]_vars

---------------------------------------------------------------------------
(* The specification's vocabulary *)

\* the nine inclusive ranges of the band classifier, lowest band first
BandRanges ==
    <<[lo |-> -50, hi |-> -31, band |-> "nemesis"],
      [lo |-> -30, hi |-> -11, band |-> "hostile"],
      [lo |-> -10, hi |-> 9, band |-> "disliked"],
      [lo |-> 10, hi |-> 29, band |-> "stranger"],
      [lo |-> 30, hi |-> 49, band |-> "known"],
      [lo |-> 50, hi |-> 69, band |-> "acquaintance"],
      [lo |-> 70, hi |-> 89, band |-> "friend"],
      [lo |-> 90, hi |-> 119, band |-> "bestfriend"],
      [lo |-> 120, hi |-> 150, band |-> "kin"]>>

\* the ranges that hold a score, and the position of a band in the order
RangesOf(score) ==
    {i \in DOMAIN BandRanges : BandRanges[i].lo <= score /\ score <= BandRanges[i].hi}
BandRank(band) ==
    IF \E i \in DOMAIN BandRanges : BandRanges[i].band = band
    THEN CHOOSE i \in DOMAIN BandRanges : BandRanges[i].band = band
    ELSE 0

\* the classification outcome of an after-reply event, by the priority order
\* of the specification: first match wins
Classify(c, m) ==
    LET reasoning_on ==
            m.reasoning # {}
            /\ Truthy(get_config(c, "reasoning_detection_enabled", BoolV(FALSE)))
        label == behavior_label(m.reasoning)
        tier == positive_tier(m.reasoning)
    IN IF m.len = 0 THEN "NoSignal"
       ELSE IF "not_talking_to_me" \in m.reasoning
       THEN (IF "others_target" \in m.reasoning /\ label # "none"
             THEN "ReasoningNegative" ELSE "NotAddressedToAgent")
       ELSE IF reasoning_on /\ label # "none"
       THEN (IF "hedge" \in m.reasoning THEN "NoSignal" ELSE "ReasoningNegative")
       ELSE IF reasoning_on /\ tier # "none" THEN "ReasoningPositive"
       ELSE IF "severe" \in m.kw THEN "SevereNegative"
       ELSE IF "mild" \in m.kw THEN "MildNegative"
       ELSE IF "negative" \in m.kw THEN "OrdinaryNegative"
       ELSE IF "affectionate" \in m.kw THEN "Affectionate"
       ELSE IF "positive" \in m.kw THEN "Positive"
       ELSE IF m.len >= min_normal_len(c) THEN "NormalInteraction"
       ELSE "NoSignal"

\* the classification of an on-message event: severe keywords only
ClassifyOnMessage(m) ==
    IF m.len > 0 /\ "severe" \in m.kw THEN "SevereNegative" ELSE "NoSignal"

\* the classification of the event that led to the next state
EventClass ==
    IF last'.op = "after_llm" THEN Classify(config, last'.msg)
    ELSE IF last'.op = "on_message" THEN ClassifyOnMessage(last'.msg)
    ELSE "NoEvent"

PositiveFamily == {"Affectionate", "Positive", "ReasoningPositive"}
NegativeFamily == {"SevereNegative", "MildNegative", "OrdinaryNegative",
                   "ReasoningNegative"}

\* the keyword tiers of the positive family have a length gate
PassesLengthGate(c, m) ==
    Classify(c, m) \in {"Affectionate", "Positive"} => m.len >= min_positive_len(c)

\* the person's pruned negative-event log after the event
LogAfter(person_id) == Get(_negative_behavior_tracker', person_id, <<>>)

---------------------------------------------------------------------------
(* Claims *)

\* C1: every stored score is within [-50, 150], and so is the value a direct
\* add_favorability call returned.
C1_ScoreInRange ==
    /\ \A person_id \in DOMAIN Favorability :
          /\ Favorability[person_id].favorability >= -50
          /\ Favorability[person_id].favorability <= 150
    /\ last.op = "add_favorability" => (last.ret >= -50 /\ last.ret <= 150)

\* C1 witness: a handler applied a positive delta to a score at the upper end
\* and the score stayed at 150.
C1_Witness ==
    /\ last.op = "after_llm"
    /\ last.applied
    /\ last.delta > 0
    /\ Favorability[last.person].favorability = 150

\* C2 (as claimed): the stored band of every row is the band of its score,
\* whichever write path wrote the row.
C2_BandMatchesScore ==
    \A person_id \in DOMAIN Favorability :
        \E i \in RangesOf(Favorability[person_id].favorability) :
            BandRanges[i].band = Favorability[person_id].level

\* C3: get_favorability_level maps every score of [-50, 150] to the band of
\* the one range that holds it, never maps a lower score to a higher band, and
\* maps 120 to the top band and 119 to the second.
C3_BandStepFunction ==
    probe.kind = "level" =>
        /\ (probe.s1 >= -50 /\ probe.s1 <= 150) =>
              /\ Cardinality(RangesOf(probe.s1)) = 1
              /\ \A i \in RangesOf(probe.s1) : probe.l1 = BandRanges[i].band
        /\ BandRank(probe.l1) > 0
        /\ probe.s1 <= probe.s2 => BandRank(probe.l1) <= BandRank(probe.l2)
        /\ probe.s1 = 120 => probe.l1 = "kin"
        /\ probe.s1 = 119 => probe.l1 = "bestfriend"

\* C3 witness: the classifier was applied on both sides of the top boundary.
C3_Witness ==
    /\ probe.kind = "level"
    /\ probe.s1 = 119 /\ probe.l1 = "bestfriend"
    /\ probe.s2 = 120 /\ probe.l2 = "kin"

\* the person of the event, and the event's handlers
EventPerson == last'.person
IsEvent == last'.op \in {"after_llm", "on_message"}

\* the event is escalated: its classification feeds the negative-event log
\* and leaves it with at least harassment_threshold entries
Escalated ==
    /\ EventClass \in {"SevereNegative", "OrdinaryNegative"}
    /\ Len(LogAfter(EventPerson)) >= harassment_threshold(config)

\* C4 (as claimed): a positive-family classification that passes its length
\* gate, handled less than positive_cooldown seconds after a positive-family
\* delta was applied to the same person, causes no store mutation.
C4_PositiveCooldownSuppresses ==
    [][(/\ last'.op = "after_llm"
        /\ EventClass \in PositiveFamily
        /\ PassesLengthGate(config, last'.msg)
        /\ EventPerson \in DOMAIN _positive_interaction_tracker
        /\ now - _positive_interaction_tracker[EventPerson] < positive_cooldown(config))
       => Favorability' = Favorability]_vars

\* C5 (as claimed): a non-escalated negative classification, handled by
\* either handler less than negative_cooldown seconds after a negative-family
\* delta was applied to the same person, causes no store mutation.
C5_NegativeCooldownShared ==
    [][(/\ IsEvent
        /\ EventClass \in NegativeFamily
        /\ ~Escalated
        /\ EventPerson \in DOMAIN _negative_interaction_tracker
        /\ now - _negative_interaction_tracker[EventPerson] < negative_cooldown(config))
       => Favorability' = Favorability]_vars

\* C6 (as claimed): a severe or ordinary-negative classification that leaves
\* the pruned log with at least harassment_threshold entries is scored with
\* harassment_delta, cooldown or not, and sets the person's negative cooldown
\* timestamp to the event time.
C6_EscalationOverridesCooldown ==
    [][(IsEvent /\ Escalated)
       => /\ last'.applied
          /\ last'.delta = harassment_delta(config)
          /\ EventPerson \in DOMAIN _negative_interaction_tracker'
          /\ _negative_interaction_tracker'[EventPerson] = now]_vars

\* the log holds ordinary-negative hits only
OrdinaryHitsOnly(log) == \A i \in DOMAIN log : log[i][2] = "negative"

\* an ordinary-negative hit in a run of ordinary-negative hits
OrdinaryHit ==
    /\ last'.op = "after_llm"
    /\ EventClass = "OrdinaryNegative"
    /\ OrdinaryHitsOnly(LogAfter(EventPerson))

\* the hit was scored with the escalated penalty
ScoredAsHarassment ==
    /\ last'.applied
    /\ last'.tag = "harassment"
    /\ last'.delta = harassment_delta(config)

\* C7 (as claimed): among ordinary-negative hits within the window, only the
\* hit that brings the log to harassment_threshold entries is scored with
\* harassment_delta.
C7_OneEscalatedPenalty ==
    [][(OrdinaryHit /\ ScoredAsHarassment)
       => Len(LogAfter(EventPerson)) = harassment_threshold(config)]_vars

\* C7 (amended): with harassment_threshold = 3, an ordinary-negative hit is
\* scored with harassment_delta exactly when it leaves at least three hits in
\* the window: of four hits the third and the fourth are escalated, the first
\* and the second are not.
C7_EscalatedFromThresholdOn ==
    [][(OrdinaryHit /\ harassment_threshold(config) = 3)
       => /\ Len(LogAfter(EventPerson)) \in {3, 4} => ScoredAsHarassment
          /\ Len(LogAfter(EventPerson)) \in {1, 2} =>
                /\ last'.tag # "harassment"
                /\ last'.applied => last'.delta # harassment_delta(config)]_vars

\* C7 witness: four ordinary-negative hits are in the window, the fourth was
\* escalated, and the score carries one ordinary and two escalated penalties.
C7_Witness ==
    /\ last.op = "after_llm"
    /\ last.tag = "harassment"
    /\ last.person \in DOMAIN _negative_behavior_tracker
    /\ Len(_negative_behavior_tracker[last.person]) = 4
    /\ OrdinaryHitsOnly(_negative_behavior_tracker[last.person])
    /\ Favorability[last.person].negative_interactions = 3
    /\ Favorability[last.person].favorability
          = 50 + negative_delta(config) + 2 * harassment_delta(config)

C9_SoftenedDelta ==
    (probe.kind = "soften" /\ probe.soften) =>
        /\ probe.tag = "negative"
        /\ probe.applied
        /\ probe.delta <= -1
        /\ probe.negative_delta <= -2 =>
              \/ 2 * probe.delta = probe.negative_delta
              \/ 2 * probe.delta = probe.negative_delta + 1
        /\ probe.negative_delta >= -1 => probe.delta = -1

\* C9 witness: a softened hit with negative_delta = -1, whose half is not an
\* integer, was scored with -1.
C9_Witness ==
    /\ probe.kind = "soften"
    /\ probe.soften
    /\ probe.negative_delta = -1
    /\ probe.applied
    /\ probe.delta = -1

\* C10: for a person without a record, a first event classified Positive on
\* a text of at least 3 x min_positive_length, with positive_delta = 1 and
\* positive_bonus_delta = 1, creates a record with score 52, the [50,69] band,
\* total_interactions = 1 and positive_interactions = 1.
C10_FirstLongPositive ==
    [][(/\ last'.op = "after_llm"
        /\ EventClass = "Positive"
        /\ EventPerson \notin DOMAIN Favorability
        /\ last'.msg.len >= 3 * min_positive_len(config)
        /\ positive_delta(config) = 1
        /\ positive_bonus_delta(config) = 1)
       => /\ EventPerson \in DOMAIN Favorability'
          /\ Favorability'[EventPerson].favorability = 52
          /\ Favorability'[EventPerson].level = "acquaintance"
          /\ Favorability'[EventPerson].total_interactions = 1
          /\ Favorability'[EventPerson].positive_interactions = 1]_vars

\* C10 witness: the first operation of the run was a long Positive event, and
\* the record it created is the only one.
C10_Witness ==
    /\ ops = 1
    /\ last.op = "after_llm"
    /\ last.tag = "positive"
    /\ last.msg.len >= 3 * min_positive_len(config)
    /\ DOMAIN Favorability = {last.person}
    /\ Favorability[last.person].favorability = 52
    /\ Favorability[last.person].total_interactions = 1

\* the tags of the entries of a negative-event log
LogTags(log) == [i \in DOMAIN log |-> log[i][2]]

\* C11: a person at score 10 with an empty negative log and no negative
\* cooldown who sends a severe hit with severe_delta = -5 ends at score 5 in
\* the [-10,9] band; when two ordinary-negative hits follow in the window,
\* with threshold 3 and harassment_delta = -25, the hit that brings the log to
\* three entries sets the score to max(-50, prior - 25).
C11_SevereThenEscalation ==
    [][(last'.op = "after_llm" /\ EventPerson \in DOMAIN Favorability)
       => LET prior == Favorability[EventPerson].favorability
              after == Favorability'[EventPerson]
              log == Get(_negative_behavior_tracker, EventPerson, <<>>)
              cooling == now - Get(_negative_interaction_tracker, EventPerson, 0)
                            < negative_cooldown(config)
          IN /\ (/\ EventClass = "SevereNegative"
                 /\ prior = 10
                 /\ log = <<>>
                 /\ ~cooling
                 /\ severe_delta(config) = -5)
                => (after.favorability = 5 /\ after.level = "disliked")
             /\ (/\ EventClass = "OrdinaryNegative"
                 /\ harassment_threshold(config) = 3
                 /\ harassment_delta(config) = -25
                 /\ LogTags(log) = <<"severe", "negative">>
                 /\ Len(LogAfter(EventPerson)) = 3)
                => after.favorability = Max(-50, prior - 25)]_vars

\* C11 witness: the score was set to 10, a severe hit made it 5, the next
\* ordinary hit was under cooldown and the one after it was escalated.
C11_Witness ==
    /\ last.op = "after_llm"
    /\ last.tag = "harassment"
    /\ last.person \in DOMAIN _negative_behavior_tracker
    /\ LogTags(_negative_behavior_tracker[last.person])
          = <<"severe", "negative", "negative">>
    /\ Favorability[last.person].favorability = -20
    /\ Favorability[last.person].total_interactions = 2

\* both store calls have finished, on the same person, and no handler event
\* ran after the first of them read the row
BothCallsDone ==
    /\ inflight.add.phase = "done"
    /\ inflight.modify.phase = "done"
    /\ inflight.add.person = inflight.modify.person
    /\ inflight.add.ops = ops
    /\ inflight.modify.ops = ops

\* the scores the two calls leave when one runs after the other, from the
\* row that the first of them read
SerialScores ==
    LET person_id == inflight.add.person
        base == IF inflight.add.first THEN inflight.add.record
                ELSE inflight.modify.record
        db == Put(<<>>, person_id, base)
        delta == inflight.add.arg
        value == inflight.modify.arg
        add_first == modify_favorability(
                         add_favorability(db, person_id, delta, RaceType(delta), now),
                         person_id, value, now)
        modify_first == add_favorability(
                            modify_favorability(db, person_id, value, now),
                            person_id, delta, RaceType(delta), now)
    IN {add_first[person_id].favorability, modify_first[person_id].favorability}

\* C12 (as claimed): whatever the interleaving of an add_favorability and a
\* modify_favorability on one person, the final score is the score of one of
\* the two serial orders.
C12_SerializedPerPerson ==
    BothCallsDone => Favorability[inflight.add.person].favorability \in SerialScores

\* C13 (as claimed): an event whose store write fails leaves the person's
\* cooldown timestamps, negative-event log and daily-gain counter as they
\* were before the event.
C13_FailedEventLeavesNothing ==
    [][last'.op \in {"after_llm_failed", "on_message_failed"}
       => (Favorability' = Favorability /\ TrackersUnchanged)]_vars

IsMalformed(c, key) ==
    \/ key \notin DOMAIN c
    \/ c[key].t \in {"bool", "dict", "badstr", "none"}

\* the tunable that gives the delta of an applied event, by handler and branch
DeltaKeyOf(l) ==
    IF l.tag = "severe" THEN "severe_delta"
    ELSE IF l.tag = "harassment" THEN "harassment_delta"
    ELSE IF l.tag = "mild" THEN "mild_negative_delta"
    ELSE IF l.tag = "negative" /\ "soften" \notin l.msg.kw THEN "negative_delta"
    ELSE IF l.tag = "affectionate" THEN "affectionate_delta"
    ELSE IF l.tag = "normal" THEN "normal_delta"
    ELSE "none"

\* C15 (as claimed): when the value of a delta tunable is malformed, an event
\* of either handler that is scored with that tunable is scored with the
\* default the configuration schema documents for the key.
C15_MalformedUsesSchemaDefault ==
    [][(/\ IsEvent
        /\ last'.applied
        /\ DeltaKeyOf(last') \in DeltaKeys
        /\ IsMalformed(config, DeltaKeyOf(last')))
       => last'.delta = SchemaDefault(DeltaKeyOf(last'))]_vars

\* the durable invariants of one record
DurableInvariant(row) ==
    /\ row.favorability >= -50
    /\ row.favorability <= 150
    /\ \E i \in RangesOf(row.favorability) : BandRanges[i].band = row.level

\* no counter of the record is lower in the second row
CountersKept(row, next_row) ==
    /\ next_row.total_interactions >= row.total_interactions
    /\ next_row.positive_interactions >= row.positive_interactions
    /\ next_row.negative_interactions >= row.negative_interactions

\* C16: when the trackers are lost at any point and events go on, every
\* record still has a score in [-50, 150] and the band of its score, and no
\* counter has decreased; losing the trackers does not touch the records.
C16_RestartKeepsDurableInvariants ==
    [][/\ \A person_id \in DOMAIN Favorability' :
             /\ DurableInvariant(Favorability'[person_id])
             /\ person_id \in DOMAIN Favorability =>
                   CountersKept(Favorability[person_id], Favorability'[person_id])
       /\ DOMAIN Favorability \subseteq DOMAIN Favorability'
       /\ last'.op = "restart" => Favorability' = Favorability]_vars

\* C16 witness: two ordinary-negative penalties were applied at one time,
\* which the cooldown forbids unless the trackers were lost in between: the
\* log holds one entry and the record counts two negative interactions.
C16_Witness ==
    /\ last.op = "after_llm"
    /\ last.tag = "negative"
    /\ now = StartTime
    /\ Len(_negative_behavior_tracker[last.person]) = 1
    /\ Favorability[last.person].negative_interactions = 2
    /\ Favorability[last.person].total_interactions = 2
    /\ Favorability[last.person].favorability = 50 + 2 * negative_delta(config)

\* the person of the event is under the cooldown kept in the tracker
UnderCooldown(tracker, seconds) ==
    now - Get(tracker, EventPerson, 0) < seconds

\* the daily-gain counter of the person of the event is full today
DailyCapReached ==
    /\ EventPerson \in DOMAIN _daily_normal_gain_tracker
    /\ _daily_normal_gain_tracker[EventPerson].date = Today(now)
    /\ _daily_normal_gain_tracker[EventPerson].count >= daily_limit(config)

\* the outcome of the after-reply event is NoSignal, NotAddressedToAgent or
\* suppressed by a cooldown, the daily cap, a length gate or a hedge marker
NoScoreOutcome ==
    \/ EventClass \in {"NoSignal", "NotAddressedToAgent"}
    \/ /\ EventClass \in PositiveFamily
       /\ \/ UnderCooldown(_positive_interaction_tracker, positive_cooldown(config))
          \/ ~PassesLengthGate(config, last'.msg)
    \/ /\ EventClass \in NegativeFamily
       /\ ~Escalated
       /\ UnderCooldown(_negative_interaction_tracker, negative_cooldown(config))
    \/ /\ EventClass = "NormalInteraction"
       /\ \/ UnderCooldown(_normal_interaction_tracker, normal_cooldown(config))
          \/ DailyCapReached

\* C17 (as claimed): an after-reply event whose outcome is NoSignal,
\* NotAddressedToAgent or suppressed leaves every record unchanged.
C17_SuppressedLeavesStore ==
    [][(last'.op = "after_llm" /\ NoScoreOutcome)
       => Favorability' = Favorability]_vars

\* a successful read of the score of a person without a record
ReadWithoutRecord ==
    /\ last'.op \in {"get_favorability", "favorability_command"}
    /\ last'.tag = "ok"
    /\ EventPerson \notin DOMAIN Favorability

\* C18 (as claimed): reading the score of a person without a record returns
\* 50 and creates the default record, which is in the store after the read.
C18_ReadCreatesRecord ==
    [][ReadWithoutRecord
       => /\ last'.ret = 50
          /\ EventPerson \in DOMAIN Favorability'
          /\ Favorability'[EventPerson].favorability = 50]_vars

\* C18 (amended): reading the score of a person without a record returns 50
\* and creates nothing: the store is the same after the read, and the person
\* still has no record.
C18_ReadReturnsDefaultOnly ==
    [][ReadWithoutRecord
       => /\ last'.ret = 50
          /\ Favorability' = Favorability
          /\ EventPerson \notin DOMAIN Favorability']_vars

\* C18 witness: the /fav command was answered with 50 for a person who has
\* no record, after another operation of the run.
C18_Witness ==
    /\ last.op = "favorability_command"
    /\ last.ret = 50
    /\ last.person \notin DOMAIN Favorability
    /\ ops > 1

\* C19 (as claimed): a set-score operation, by set_favorability or by the
\* script's modify_favorability, leaves the record with the given value
\* clamped to [-50, 150] and the band of that score, and leaves the counters
\* and created_at of an existing record unchanged.
C19_SetClampsAndRebands ==
    [][last'.op \in {"set_favorability", "modify_favorability"}
       => LET row == Favorability'[EventPerson]
          IN /\ \E value \in SetValues :
                   row.favorability = Max(-50, Min(150, value))
             /\ \E i \in RangesOf(row.favorability) : BandRanges[i].band = row.level
             /\ EventPerson \in DOMAIN Favorability =>
                   /\ row.total_interactions
                         = Favorability[EventPerson].total_interactions
                   /\ row.positive_interactions
                         = Favorability[EventPerson].positive_interactions
                   /\ row.negative_interactions
                         = Favorability[EventPerson].negative_interactions
                   /\ row.created_at = Favorability[EventPerson].created_at]_vars

\* C20: a record appears only with an applied delta or a set-score operation
\* and is never removed; the first applied delta d for a person without a
\* record creates a record with score clamp(50 + d) and total_interactions 1.
C20_RecordLifecycle ==
    [][/\ DOMAIN Favorability \subseteq DOMAIN Favorability'
       /\ \A person_id \in DOMAIN Favorability' \ DOMAIN Favorability :
             /\ person_id = EventPerson
             /\ \/ last'.op \in {"set_favorability", "modify_favorability"}
                \/ /\ last'.applied
                   /\ Favorability'[person_id].favorability
                         = Max(-50, Min(150, 50 + last'.delta))
                   /\ Favorability'[person_id].total_interactions = 1
       /\ (last'.applied /\ EventPerson \notin DOMAIN Favorability)
             => EventPerson \in DOMAIN Favorability']_vars

\* C20 witness: a record created by a first applied penalty is still there,
\* with its score and total_interactions 1, after a later event without score.
C20_Witness ==
    /\ ops = 3
    /\ last.op = "after_llm"
    /\ ~last.applied
    /\ last.person \in DOMAIN Favorability
    /\ Favorability[last.person].total_interactions = 1
    /\ Favorability[last.person].negative_interactions = 1
    /\ Favorability[last.person].favorability = 50 + severe_delta(config)

\* the counters of a row, and of a person without a row
CountersOf(db, person_id) ==
    IF person_id \in DOMAIN db
    THEN <<db[person_id].total_interactions, db[person_id].positive_interactions,
           db[person_id].negative_interactions>>
    ELSE <<0, 0, 0>>

\* C21: the three counters of every record are never negative, no operation
\* of the engine lowers any of them, and every applied delta raises
\* total_interactions of its person by exactly 1.
C21_CountersMonotone ==
    [][/\ \A person_id \in DOMAIN Favorability' :
             /\ \A i \in 1..3 : CountersOf(Favorability', person_id)[i] >= 0
             /\ \A i \in 1..3 : CountersOf(Favorability', person_id)[i]
                                   >= CountersOf(Favorability, person_id)[i]
       /\ last'.applied =>
             CountersOf(Favorability', EventPerson)[1]
                = CountersOf(Favorability, EventPerson)[1] + 1]_vars

\* C21 witness: a set-score operation on a record that two applied deltas
\* have counted, one of them negative.
C21_Witness ==
    /\ last.op = "set_favorability"
    /\ last.person \in DOMAIN Favorability
    /\ CountersOf(Favorability, last.person)[1] = 2
    /\ CountersOf(Favorability, last.person)[3] >= 1

\* what a dictionary holds for a key: nothing, or one value
Held(d, k) == IF k \in DOMAIN d THEN <<d[k]>> ELSE <<>>

\* the record and the ephemeral state of a person stay as they are
PersonUntouched(person_id) ==
    /\ Held(Favorability', person_id) = Held(Favorability, person_id)
    /\ Held(_negative_behavior_tracker', person_id)
          = Held(_negative_behavior_tracker, person_id)
    /\ Held(_normal_interaction_tracker', person_id)
          = Held(_normal_interaction_tracker, person_id)
    /\ Held(_positive_interaction_tracker', person_id)
          = Held(_positive_interaction_tracker, person_id)
    /\ Held(_negative_interaction_tracker', person_id)
          = Held(_negative_interaction_tracker, person_id)
    /\ Held(_daily_normal_gain_tracker', person_id)
          = Held(_daily_normal_gain_tracker, person_id)

\* C22: an event for one person leaves the record, the three cooldown
\* timestamps, the negative-event log and the daily counter of every other
\* person unchanged.
C22_OtherPersonUntouched ==
    [][IsEvent => \A other \in PairPersons \ {EventPerson} : PersonUntouched(other)]_vars

\* C22 witness: a scored event for p1 while p2 has a record, a log and a
\* cooldown timestamp of its own.
C22_Witness ==
    /\ last.op \in {"after_llm", "on_message"}
    /\ last.person = "p1"
    /\ last.applied
    /\ "p2" \in DOMAIN Favorability
    /\ "p2" \in DOMAIN _negative_behavior_tracker
    /\ "p2" \in DOMAIN _negative_interaction_tracker
    /\ "p1" \in DOMAIN _negative_behavior_tracker

\* the branches of the after-reply handler that apply a delta, by family
PositiveBranches == {"affectionate", "positive", "reasoning_positive"}
NegativeBranches == {"severe", "mild", "negative", "harassment",
                     "reasoning_negative", "others_penalty"}
NormalBranches == {"normal"}

\* how much the three counters of the event's person grow with the event
CounterGrowth ==
    [i \in 1..3 |-> CountersOf(Favorability', EventPerson)[i]
                       - CountersOf(Favorability, EventPerson)[i]]

\* C23: an event of the after-reply handler ends in one outcome with at most
\* one store write: total_interactions grows by 1 when a delta is applied
\* and by 0 otherwise, and an applied delta counts in the counter of its own
\* family only: positive_interactions for the affectionate, positive and
\* reasoning-positive tiers, negative_interactions for every negative tier,
\* neither for the daily interaction gain.
C23_OneOutcomeOneWrite ==
    [][last'.op = "after_llm" =>
          IF last'.applied
          THEN /\ last'.tag \in PositiveBranches \cup NegativeBranches \cup NormalBranches
               /\ last'.tag \in PositiveBranches => CounterGrowth = <<1, 1, 0>>
               /\ last'.tag \in NegativeBranches => CounterGrowth = <<1, 0, 1>>
               /\ last'.tag \in NormalBranches => CounterGrowth = <<1, 0, 0>>
          ELSE /\ CounterGrowth = <<0, 0, 0>>
               /\ Favorability' = Favorability]_vars

\* C23 witness: one record has counted a gain of each kind: an affectionate
\* text, a penalty and a daily interaction gain.
C23_Witness ==
    /\ last.op = "after_llm"
    /\ last.tag = "affectionate"
    /\ last.person \in DOMAIN Favorability
    /\ CountersOf(Favorability, last.person) = <<3, 1, 1>>

\* no tracker changes with the step
TrackersKept ==
    UNCHANGED <<_negative_behavior_tracker, _normal_interaction_tracker,
                _positive_interaction_tracker, _negative_interaction_tracker,
                _daily_normal_gain_tracker>>

\* an after-reply event that the reasoning tier classifies, the reasoning
\* not saying that the user talks to someone else
ReasoningEvent ==
    /\ last'.op = "after_llm"
    /\ "not_talking_to_me" \notin last'.msg.reasoning
    /\ EventClass \in {"ReasoningNegative", "ReasoningPositive"}

\* C24: an event classified by the reasoning tier ends there: its outcome is
\* the reasoning penalty or gain, or, under the cooldown of its family,
\* nothing at all; no keyword tier and no daily gain acts on it.
C24_ReasoningShortCircuits ==
    [][ReasoningEvent =>
          IF last'.applied
          THEN last'.tag = (IF EventClass = "ReasoningNegative"
                            THEN "reasoning_negative" ELSE "reasoning_positive")
          ELSE Favorability' = Favorability /\ TrackersKept]_vars

\* an after-reply event whose reasoning names a behaviour label and hedges,
\* reasoning detection being on and the user talking to the bot
HedgedEvent ==
    /\ last'.op = "after_llm"
    /\ Truthy(get_config(config, "reasoning_detection_enabled", BoolV(FALSE)))
    /\ "not_talking_to_me" \notin last'.msg.reasoning
    /\ behavior_label(last'.msg.reasoning) # "none"
    /\ "hedge" \in last'.msg.reasoning

\* C25: a hedged judgment of a negative behaviour changes nothing: no record,
\* no cooldown timestamp, no log and no daily counter, also when the text
\* holds a severe keyword.
C25_HedgeSuppresses ==
    [][HedgedEvent =>
          /\ ~last'.applied
          /\ Favorability' = Favorability
          /\ TrackersKept]_vars

\* C25 witness: a hedged event with a severe keyword in its text was handled
\* for a person with a record, and the person's log has no entry.
C25_Witness ==
    /\ last.op = "after_llm"
    /\ last.tag = "hedge"
    /\ "severe" \in last.msg.kw
    /\ last.person \in DOMAIN Favorability
    /\ last.person \notin DOMAIN _negative_behavior_tracker

\* an after-reply event whose reasoning says that the user is not talking
\* to the bot
NotTalkingEvent ==
    /\ last'.op = "after_llm"
    /\ last'.msg.len > 0
    /\ Truthy(get_config(config, "skip_penalty_when_not_talking_to_me", BoolV(TRUE)))
    /\ "not_talking_to_me" \in last'.msg.reasoning

\* the outcome of a not-talking event, given the labels that are penalised
\* when the reasoning also names a third party: negative_delta once the
\* negative cooldown has elapsed and nothing under it; for every other
\* reasoning no score and no change but the "interaction seen" timestamp
NotTalkingOutcome(labels) ==
    LET person_id == EventPerson
        penalised == /\ "others_target" \in last'.msg.reasoning
                     /\ last'.msg.reasoning \cap labels # {}
        elapsed == now - Get(_negative_interaction_tracker, person_id, 0)
                       >= negative_cooldown(config)
    IN IF penalised /\ elapsed
       THEN /\ last'.applied
            /\ last'.delta = negative_delta(config)
            /\ Favorability' = add_favorability(Favorability, person_id,
                                   negative_delta(config), "negative", now)
            /\ _negative_interaction_tracker'
                  = Put(_negative_interaction_tracker, person_id, now)
            /\ UNCHANGED <<_negative_behavior_tracker, _normal_interaction_tracker,
                           _positive_interaction_tracker, _daily_normal_gain_tracker>>
       ELSE IF penalised
       THEN ~last'.applied /\ Favorability' = Favorability /\ TrackersKept
       ELSE /\ ~last'.applied
            /\ Favorability' = Favorability
            /\ _normal_interaction_tracker' \in
                  {_normal_interaction_tracker,
                   Put(_normal_interaction_tracker, person_id, now)}
            /\ UNCHANGED <<_negative_behavior_tracker, _positive_interaction_tracker,
                           _negative_interaction_tracker, _daily_normal_gain_tracker>>

\* C26 (as claimed): a not-talking event is penalised exactly when its
\* reasoning also names a third party and a behaviour label, one of insult,
\* harassment, threat and rude; otherwise it is not addressed to the bot; no
\* keyword tier and no daily gain acts on it.
C26_NotTalkingPenalisesAnyLabel ==
    [][NotTalkingEvent =>
          NotTalkingOutcome({"insult", "harassment", "threat", "rude"})]_vars

\* C26 (amended): a not-talking event is penalised exactly when its
\* reasoning also names a third party and one of the labels insult,
\* harassment and threat; with the label rude alone, as with no label or no
\* third party, it is not addressed to the bot; no keyword tier and no daily
\* gain acts on it.
C26_NotTalkingPenalisesAbuse ==
    [][NotTalkingEvent => NotTalkingOutcome({"insult", "harassment", "threat"})]_vars

\* C26 witness: a not-talking event about rudeness to a third party went
\* without penalty, the negative cooldown not being active.
C26_Witness ==
    /\ last.op = "after_llm"
    /\ last.tag = "not_talking"
    /\ {"others_target", "rude"} \subseteq last.msg.reasoning
    /\ last.person \notin DOMAIN _negative_interaction_tracker
    /\ last.person \in DOMAIN Favorability

\* an event classified as a severe or an ordinary negative hit
LoggedEvent ==
    /\ IsEvent
    /\ EventClass \in {"SevereNegative", "OrdinaryNegative"}

\* the entries of a log that are younger than the harassment window at time t
Recent(log, t) ==
    {i \in DOMAIN log : t - log[i][1] < harassment_window(config)}

\* C27: every severe or ordinary negative hit, scored or held back by the
\* negative cooldown, adds exactly one entry with the time of the event to
\* the person's log: the log holds the entries still inside the window and
\* the new one, which is the last.
C27_EveryHitIsLogged ==
    [][LoggedEvent =>
          LET log == Get(_negative_behavior_tracker, EventPerson, <<>>)
              after == LogAfter(EventPerson)
          IN /\ Len(after) = Cardinality(Recent(log, now)) + 1
             /\ after[Len(after)][1] = now
             /\ after[Len(after)][2] \in {"severe", "negative", "user_input:severe"}]_vars

\* C27 witness: a hit held back by the negative cooldown is the second entry
\* of the log.
C27_Witness ==
    /\ last.op = "after_llm"
    /\ last.tag \in {"severe_cooldown", "negative_cooldown"}
    /\ last.person \in DOMAIN _negative_behavior_tracker
    /\ Len(_negative_behavior_tracker[last.person]) = 2
    /\ _negative_behavior_tracker[last.person][2][1] = now

\* an event that took a branch which reads and writes the person's log
LogAccess ==
    /\ IsEvent
    /\ last'.tag \in {"severe", "severe_cooldown", "negative", "negative_cooldown",
                      "harassment"}

\* C28: right after an event at time t that accesses a person's log, every
\* entry left in the log is younger than the harassment window, and the
\* entries are in the order of their timestamps.
C28_LogPrunedAndOrdered ==
    [][LogAccess =>
          LET after == LogAfter(EventPerson)
          IN /\ \A i \in DOMAIN after : now - after[i][1] < harassment_window(config)
             /\ \A i, j \in DOMAIN after : i < j => after[i][1] <= after[j][1]]_vars

\* C28 witness: two hits were scored, and the log holds only the later one:
\* the earlier one has left the window.
C28_Witness ==
    /\ last.op \in {"after_llm", "on_message"}
    /\ last.tag \in {"severe", "negative"}
    /\ Favorability[last.person].negative_interactions = 2
    /\ Len(_negative_behavior_tracker[last.person]) = 1
    /\ _negative_behavior_tracker[last.person][1][1] = now

\* an after-reply event classified Positive that passes the length gate
\* while the positive cooldown is not active
PositivePasses ==
    /\ last'.op = "after_llm"
    /\ EventClass = "Positive"
    /\ PassesLengthGate(config, last'.msg)
    /\ ~UnderCooldown(_positive_interaction_tracker, positive_cooldown(config))

\* C29 (as claimed): such an event applies positive_delta + positive_bonus_delta
\* when the length of its text is above 3 x min_positive_length, and
\* positive_delta otherwise, also at exactly 3 x min_positive_length.
C29_BonusAboveThreeTimes ==
    [][PositivePasses =>
          /\ last'.applied
          /\ last'.delta =
                IF last'.msg.len > 3 * min_positive_len(config)
                THEN positive_delta(config) + positive_bonus_delta(config)
                ELSE positive_delta(config)]_vars

\* C29 (amended): such an event applies positive_delta + positive_bonus_delta
\* when the length of its text is at least 3 x min_positive_length, so also
\* at exactly that length, and positive_delta below it.
C29_BonusFromThreeTimes ==
    [][PositivePasses =>
          /\ last'.applied
          /\ last'.delta =
                IF last'.msg.len >= 3 * min_positive_len(config)
                THEN positive_delta(config) + positive_bonus_delta(config)
                ELSE positive_delta(config)
          /\ Favorability' = add_favorability(Favorability, EventPerson,
                                 last'.delta, "positive", now)]_vars

\* C29 witness: a text of exactly 3 x min_positive_length got the bonus,
\* after a shorter text got the plain gain.
C29_Witness ==
    /\ last.op = "after_llm"
    /\ last.tag = "positive"
    /\ last.msg.len = 3 * min_positive_len(config)
    /\ last.delta = positive_delta(config) + positive_bonus_delta(config)
    /\ Favorability[last.person].favorability
          = 50 + 2 * positive_delta(config) + positive_bonus_delta(config)

\* an after-reply event classified NormalInteraction
NormalEvent ==
    /\ last'.op = "after_llm"
    /\ EventClass = "NormalInteraction"

\* C30: for a NormalInteraction event, an applied gain sets the person's
\* normal-interaction timestamp to the time of the event; a gain blocked by
\* the daily cap, the cooldown having elapsed, leaves that timestamp and the
\* score unchanged; a gain blocked by the cooldown leaves the daily counter
\* unchanged.
C30_NormalGainFrame ==
    [][NormalEvent =>
          LET cooling == UnderCooldown(_normal_interaction_tracker,
                                       normal_cooldown(config))
          IN /\ last'.applied =>
                   /\ ~cooling
                   /\ ~DailyCapReached
                   /\ _normal_interaction_tracker'[EventPerson] = now
             /\ (~cooling /\ DailyCapReached) =>
                   /\ ~last'.applied
                   /\ UNCHANGED _normal_interaction_tracker
                   /\ Favorability' = Favorability
             /\ cooling =>
                   /\ ~last'.applied
                   /\ UNCHANGED _daily_normal_gain_tracker]_vars

\* C30 witness: a daily gain was held back by the daily cap after the
\* cooldown had elapsed, and the timestamp is still that of the earlier gain.
C30_Witness ==
    /\ last.op = "after_llm"
    /\ last.tag = "daily_cap"
    /\ last.person \in DOMAIN _normal_interaction_tracker
    /\ now - _normal_interaction_tracker[last.person] >= normal_cooldown(config)
    /\ _daily_normal_gain_tracker[last.person].count >= daily_limit(config)

\* C36: an event whose delta is 0 changes nothing: no record (so neither
\* total_interactions nor negative_interactions) and not the negative
\* cooldown timestamp, in the reasoning-negative tier and in the mild tier
\* under the handler's default mild_negative_delta alike.
C36_ZeroDeltaChangesNothing ==
    [][(IsEvent /\ last'.delta = 0) =>
          /\ Favorability' = Favorability
          /\ UNCHANGED _negative_interaction_tracker]_vars

\* C37: for every configured integer negative_delta the softened delta of an
\* ordinary negative hit is not below negative_delta.
C37_SoftenedNotHarsher ==
    (probe.kind = "soften" /\ probe.soften) =>
        probe.delta >= probe.negative_delta

\* C39: in every record positive_interactions + negative_interactions is at
\* most total_interactions.
C39_FamiliesWithinTotal ==
    \A person_id \in DOMAIN Favorability :
        Favorability[person_id].positive_interactions
            + Favorability[person_id].negative_interactions
        <= Favorability[person_id].total_interactions

\* C39 witness: a record that counts three interactions, of which one
\* positive and one negative.
C39_Witness ==
    \E person_id \in DOMAIN Favorability :
        CountersOf(Favorability, person_id) = <<3, 1, 1>>

\* C35: the daily-gain counter of a person, which is the sum of the daily
\* gains applied to the person on the counter's date, never goes above
\* daily_normal_limit, whatever normal_delta is configured.
C35_DailyGainWithinLimit ==
    \A person_id \in DOMAIN _daily_normal_gain_tracker :
        _daily_normal_gain_tracker[person_id].count <= daily_limit(config)

\* the after-reply handler handles a message with a severe keyword that the
\* on-message handler handled when it arrived
RepliedSevere ==
    /\ last.op = "on_message"
    /\ last'.op = "after_llm"
    /\ last'.person = last.person
    /\ last'.msg = last.msg
    /\ "severe" \in last.msg.kw

\* the entries of a log, as a set
Entries(log) == {log[i] : i \in DOMAIN log}

\* C34: one message with a severe keyword is penalised at most once and adds
\* at most one entry to the person's log: when the on-message handler has
\* penalised and logged it, the after-reply handler does neither.
C34_SevereCountedOnce ==
    [][RepliedSevere =>
          /\ ~(last.applied /\ last'.applied)
          /\ Entries(LogAfter(EventPerson))
                \subseteq Entries(Get(_negative_behavior_tracker, EventPerson, <<>>))]_vars

\* the keyword tier of highest priority that a set of keyword lists reaches
TopTier(kw) ==
    IF "severe" \in kw THEN "severe"
    ELSE IF "mild" \in kw THEN "mild"
    ELSE IF "negative" \in kw THEN "negative"
    ELSE IF "affectionate" \in kw THEN "affectionate"
    ELSE IF "positive" \in kw THEN "positive"
    ELSE "normal"

\* the outcomes of a keyword tier: its gain or penalty, or the reason why
\* there is none
OutcomesOf(tier) ==
    CASE tier = "severe" -> {"severe", "severe_cooldown", "harassment"}
      [] tier = "mild" -> {"mild", "mild_cooldown"}
      [] tier = "negative" -> {"negative", "negative_cooldown", "harassment"}
      [] tier = "affectionate" -> {"affectionate", "affectionate_short",
                                   "affectionate_cooldown"}
      [] tier = "positive" -> {"positive", "positive_short", "positive_cooldown"}
      [] tier = "normal" -> {"normal", "normal_cooldown", "daily_cap", "no_signal"}

\* the delta of a tier under the configuration, for a text without softening
\* marker and below the length of the bonus
TierDelta(tier) ==
    CASE tier = "severe" -> severe_delta(config)
      [] tier = "mild" -> mild_negative_delta(config)
      [] tier = "negative" -> negative_delta(config)
      [] tier = "affectionate" -> affectionate_delta(config)
      [] tier = "positive" -> positive_delta(config)
      [] tier = "normal" -> normal_delta(config)

\* an after-reply event that the keyword tiers classify
KeywordEvent ==
    /\ last'.op = "after_llm"
    /\ last'.msg.reasoning = {}
    /\ last'.msg.len > 0

\* C33: a text with keywords of several tiers is scored by the tier of
\* highest priority alone, in the order severe, mild, ordinary negative,
\* affectionate, positive, normal: the outcome is one of that tier, an
\* applied delta is the delta of that tier (or the harassment penalty of an
\* escalated hit), and a text with a keyword of a negative tier counts no
\* positive or neutral interaction.
C33_HighestTierOnly ==
    [][KeywordEvent =>
          LET tier == TopTier(last'.msg.kw)
          IN /\ last'.tag \in OutcomesOf(tier)
             /\ last'.applied =>
                   last'.delta = IF last'.tag = "harassment"
                                 THEN harassment_delta(config)
                                 ELSE TierDelta(tier)
             /\ tier \in {"severe", "mild", "negative"} =>
                   CounterGrowth \in {<<0, 0, 0>>, <<1, 0, 1>>}]_vars

\* C33 witness: a text with a keyword of every list was scored as a severe
\* hit, after an earlier gain.
C33_Witness ==
    /\ last.op = "after_llm"
    /\ last.msg.kw = {"severe", "mild", "negative", "affectionate", "positive"}
    /\ last.tag = "severe"
    /\ last.applied
    /\ CountersOf(Favorability, last.person) = <<2, 1, 1>>

\* the first element of a sequence that is in a set, "none" without one
RECURSIVE FirstIn(_, _)
FirstIn(order, S) ==
    IF order = <<>> THEN "none"
    ELSE IF Head(order) \in S THEN Head(order)
    ELSE FirstIn(Tail(order), S)

LabelOrder == <<"insult", "harassment", "threat", "rude">>
TierOrder == <<"high", "mid", "low">>

\* the penalty of a behaviour label and the gain of a positive tier
LabelDelta(label) ==
    IF label = "rude" THEN mild_negative_delta(config) ELSE negative_delta(config)

TierGain(tier) ==
    reasoning_positive_delta(config) - 1
    + (CASE tier = "high" -> reasoning_positive_bonus_high(config)
         [] tier = "mid" -> reasoning_positive_bonus_mid(config)
         [] tier = "low" -> reasoning_positive_bonus_low(config))

\* C32: with keywords of several behaviour-label sets in the reasoning the
\* label is the first of insult, harassment, threat, rude with a hit, and
\* with keywords of several positive tiers the tier is the first of high,
\* mid, low; the delta is that of the label (mild_negative_delta for rude,
\* negative_delta otherwise) or of the tier.
C32_FirstLabelFirstTier ==
    [][(last'.op = "after_llm" /\ "not_talking_to_me" \notin last'.msg.reasoning) =>
          LET label == FirstIn(LabelOrder, last'.msg.reasoning)
              tier == FirstIn(TierOrder, last'.msg.reasoning)
          IN /\ last'.tag = "reasoning_negative" =>
                   label # "none" /\ last'.delta = LabelDelta(label)
             /\ last'.tag = "reasoning_positive" =>
                   tier # "none" /\ last'.delta = TierGain(tier)
             /\ (/\ label # "none"
                 /\ "hedge" \notin last'.msg.reasoning
                 /\ ~UnderCooldown(_negative_interaction_tracker,
                                   negative_cooldown(config)))
                => last'.tag = "reasoning_negative" /\ last'.applied
             /\ (/\ label = "none"
                 /\ tier # "none"
                 /\ ~UnderCooldown(_positive_interaction_tracker,
                                   positive_cooldown(config)))
                => last'.tag = "reasoning_positive" /\ last'.applied]_vars

\* C32 witness: a reasoning with rude and threat keywords was penalised with
\* negative_delta, after a reasoning of the tier mid had gained the delta of
\* mid, which is neither that of low nor that of high.
C32_Witness ==
    /\ last.op = "after_llm"
    /\ last.tag = "reasoning_negative"
    /\ last.msg.reasoning = {"threat", "rude"}
    /\ last.delta = negative_delta(config)
    /\ Favorability[last.person].favorability
          = 50 + TierGain("mid") + negative_delta(config)
    /\ TierGain("mid") # TierGain("low")
    /\ TierGain("mid") # TierGain("high")

\* an event on a text that quotes a message
QuoteEvent ==
    /\ IsEvent
    /\ "quoted" \in DOMAIN last'.msg

\* C31: quoted text is never scored: a severe keyword that stands only in
\* the quoted message takes no event into the severe tier of either
\* handler, and an event whose text is only a quoted reply changes no
\* record and no tracker.
C31_QuotedTextNotScored ==
    [][QuoteEvent =>
          /\ (\A i \in DOMAIN last'.msg.live : last'.msg.live[i] # "k")
                => last'.tag \notin {"severe", "severe_cooldown", "harassment"}
          /\ last'.msg.live = <<>>
                => Favorability' = Favorability /\ TrackersKept]_vars

\* the family of deltas of the event's class
EventFamily ==
    IF EventClass \in PositiveFamily THEN "Positive"
    ELSE IF EventClass \in NegativeFamily THEN "Negative"
    ELSE IF EventClass = "NormalInteraction" THEN "Normal"
    ELSE "None"

FamilyCooldown(family) ==
    CASE family = "Positive" -> positive_cooldown(config)
      [] family = "Negative" -> negative_cooldown(config)
      [] family = "Normal" -> normal_cooldown(config)

FamilyTrackerKept(family) ==
    CASE family = "Positive" -> UNCHANGED _positive_interaction_tracker
      [] family = "Negative" -> UNCHANGED _negative_interaction_tracker
      [] family = "Normal" -> UNCHANGED _normal_interaction_tracker

\* a hit that a cooldown suppresses leaves the cooldown's timestamp alone
SuppressedKeepsTimestamp ==
    (IsEvent /\ SuppressedFamily(last'.tag) \in Families)
        => FamilyTrackerKept(SuppressedFamily(last'.tag))

\* an event of a family whose last applied delta is a cooldown or more ago,
\* with no escalation and the gates passed
CooldownOver ==
    /\ IsEvent
    /\ probe.kind = "cooldown"
    /\ EventFamily \in Families
    /\ probe.since[EventPerson][EventFamily] > 0
    /\ now >= probe.since[EventPerson][EventFamily] + FamilyCooldown(EventFamily)
    /\ ~Escalated
    /\ PassesLengthGate(config, last'.msg)
    /\ EventFamily = "Normal" => ~DailyCapReached

EventApplied ==
    /\ last'.applied
    /\ AppliedFamily(last'.tag) = EventFamily

\* C38 as stated: a hit that a cooldown suppresses never refreshes the
\* cooldown's timestamp, and the first event of a family a cooldown or more
\* after the family's last applied delta is applied, whatever was suppressed
\* in between.
C38_CooldownNeverExtended ==
    [][/\ SuppressedKeepsTimestamp
       /\ CooldownOver => EventApplied]_vars

\* C38, amended: a hit that a cooldown suppresses never refreshes the
\* cooldown's timestamp, and the first event of a family a cooldown or more
\* after the family's last applied delta is applied, whatever was suppressed
\* in between; for the normal family, provided the person has sent no
\* message classified as not addressed to the agent since that delta.
C38_CooldownExtendedOnlyAside ==
    [][/\ SuppressedKeepsTimestamp
       /\ (CooldownOver /\ (EventFamily = "Normal" => ~probe.aside[EventPerson]))
             => EventApplied]_vars

\* an affectionate delta applied a cooldown after the one before it, with a
\* hit suppressed in between
C38_Witness ==
    /\ probe.kind = "cooldown"
    /\ last.op = "after_llm"
    /\ last.tag = "affectionate"
    /\ last.applied
    /\ probe.overcame >= 1

====
